---------------------------- MODULE Spec2Model ----------------------------
(***************************************************************************)
(* TinyLisp toolchain: the compiler of tinylisp_v0.py (class C) and the    *)
(* stack VM of vm.py (run, main), as one state machine.                    *)
(*                                                                         *)
(* A Python str is a sequence of one-character strings, so that the        *)
(* concatenations of the code (f"{p}{n}", a + b) and its number formatting *)
(* and parsing (f"PUSH {x}", int(inst[1])) are computed, not assumed.      *)
(* A bytecode line is the sequence of its whitespace-separated tokens; the *)
(* first token (the opcode) is a TLA+ string, every operand is a str.      *)
(***************************************************************************)
EXTENDS Integers, Sequences, FiniteSets, TLC

(***************************************************************************)
(* Bounds of the model.                                                    *)
(***************************************************************************)
MaxStack == 7
MaxFrames == 7
MaxInt == 120
MaxText == 6
MaxOut == 3
MaxRawLen == 2
MaxForms == 2
MaxFact == 5
MaxCount == 4
MaxGensym == 11
MaxToks == 5
MaxPlain == 2

(***************************************************************************)
(* Python str and int <-> text.                                            *)
(***************************************************************************)
Digits == <<"0", "1", "2", "3", "4", "5", "6", "7", "8", "9">>

IsDigit(ch) == \E i \in 1..10 : Digits[i] = ch

DigitVal(ch) == (CHOOSE i \in 1..10 : Digits[i] = ch) - 1

RECURSIVE NatToStr(_)
NatToStr(n) ==
    IF n < 10 THEN <<Digits[n + 1]>>
    ELSE NatToStr(n \div 10) \o <<Digits[(n % 10) + 1]>>

\* str(n) / f"{n}" of a Python int
IntToStr(n) == IF n < 0 THEN <<"-">> \o NatToStr(-n) ELSE NatToStr(n)

RECURSIVE DigitsToNat(_)
DigitsToNat(s) ==
    IF s = <<>> THEN 0
    ELSE 10 * DigitsToNat(SubSeq(s, 1, Len(s) - 1)) + DigitVal(s[Len(s)])

Unsigned(s) == IF s # <<>> /\ s[1] \in {"-", "+"} THEN Tail(s) ELSE s

\* the texts int() accepts: an optional sign, then digits, single
\* underscores allowed between digits
IsIntLit(s) ==
    LET u == Unsigned(s) IN
    /\ u # <<>>
    /\ \A i \in 1..Len(u) : IsDigit(u[i]) \/ u[i] = "_"
    /\ \A i \in 1..Len(u) :
          u[i] = "_" => /\ i > 1 /\ i < Len(u)
                        /\ IsDigit(u[i - 1]) /\ IsDigit(u[i + 1])

\* int(s) for a text IsIntLit accepts
StrToInt(s) ==
    LET u == SelectSeq(Unsigned(s), IsDigit)
    IN  IF s[1] = "-" THEN 0 - DigitsToNat(u) ELSE DigitsToNat(u)

\* json.dumps(s) of a str: quoted, with the quote, the backslash and the
\* newline escaped
RECURSIVE JsonEscape(_)
JsonEscape(s) ==
    IF s = <<>> THEN <<>>
    ELSE (CASE s[1] = "\"" -> <<"\\", "\"">>
            [] s[1] = "\\" -> <<"\\", "\\">>
            [] s[1] = "\n" -> <<"\\", "n">>
            [] OTHER -> <<s[1]>>) \o JsonEscape(Tail(s))

json_dumps(s) == <<"\"">> \o JsonEscape(s) \o <<"\"">>

\* the body of a JSON string literal, decoded; <<"!">> marks a text that
\* json.loads rejects
RECURSIVE JsonUnescape(_)
JsonUnescape(s) ==
    IF s = <<>> THEN <<>>
    ELSE IF s[1] = "\"" \/ s[1] = "\n" THEN <<"!">>
    ELSE IF s[1] = "\\"
         THEN IF Len(s) < 2 \/ s[2] \notin {"\"", "\\", "n"} THEN <<"!">>
              ELSE LET r == JsonUnescape(SubSeq(s, 3, Len(s)))
                   IN  IF r = <<"!">> THEN r
                       ELSE <<IF s[2] = "n" THEN "\n" ELSE s[2]>> \o r
    ELSE LET r == JsonUnescape(Tail(s))
         IN  IF r = <<"!">> THEN r ELSE <<s[1]>> \o r

StripSpaces(s) ==
    LET idx == {i \in 1..Len(s) : s[i] # " "}
    IN  IF idx = {} THEN <<>>
        ELSE SubSeq(s, CHOOSE i \in idx : \A j \in idx : i <= j,
                       CHOOSE i \in idx : \A j \in idx : i >= j)

JsonIsStr(t) ==
    LET u == StripSpaces(t) IN
    /\ Len(u) >= 2 /\ u[1] = "\"" /\ u[Len(u)] = "\""
    /\ JsonUnescape(SubSeq(u, 2, Len(u) - 1)) # <<"!">>

json_loads(t) == LET u == StripSpaces(t) IN JsonUnescape(SubSeq(u, 2, Len(u) - 1))

(***************************************************************************)
(* Values and AST nodes: int | str | Sym | list.                           *)
(***************************************************************************)
VInt(n) == [t |-> "int", n |-> n, s |-> <<>>, l |-> <<>>]
VStr(s) == [t |-> "str", n |-> 0, s |-> s, l |-> <<>>]
Sym(name) == [t |-> "sym", n |-> 0, s |-> name, l |-> <<>>]
VList(l) == [t |-> "list", n |-> 0, s |-> <<>>, l |-> l]

(***************************************************************************)
(* The names the code spells out, as str.                                  *)
(***************************************************************************)
N_begin == <<"b", "e", "g", "i", "n">>
N_if == <<"i", "f">>
N_let == <<"l", "e", "t">>
N_set == <<"s", "e", "t">>
N_while == <<"w", "h", "i", "l", "e">>
N_print == <<"p", "r", "i", "n", "t">>
N_define == <<"d", "e", "f", "i", "n", "e">>
N_plus == <<"+">>
N_minus == <<"-">>
N_times == <<"*">>
N_div == <<"/">>
N_lt == <<"<">>
N_eq == <<"=", "=">>
START == <<"_", "_", "S", "T", "A", "R", "T", "_", "_">>
P_ELSE == <<"E", "L", "S", "E">>
P_END == <<"E", "N", "D">>
P_TOP == <<"T", "O", "P">>
P_L == <<"L">>
N_read_all == <<"r", "e", "a", "d", "-", "a", "l", "l">>
N_parse_sexprs == <<"p", "a", "r", "s", "e", "-", "s", "e", "x", "p", "r", "s">>
N_emit == <<"e", "m", "i", "t">>
N_gensym == <<"g", "e", "n", "s", "y", "m">>
N_str_cat == <<"s", "t", "r", "-", "c", "a", "t">>
N_to_str == <<"t", "o", "-", "s", "t", "r">>
N_sym == <<"s", "y", "m">>
N_sym_name == <<"s", "y", "m", "-", "n", "a", "m", "e">>
N_sym_eq == <<"s", "y", "m", "-", "e", "q", "?">>
N_intp == <<"i", "n", "t", "?">>
N_symp == <<"s", "y", "m", "?">>
N_pairp == <<"p", "a", "i", "r", "?">>
N_nullp == <<"n", "u", "l", "l", "?">>
N_strp == <<"s", "t", "r", "?">>
N_json_dumps == <<"j", "s", "o", "n", "-", "d", "u", "m", "p", "s">>
N_car == <<"c", "a", "r">>
N_cdr == <<"c", "d", "r">>
N_error == <<"e", "r", "r", "o", "r">>
N_x == <<"x">>
N_y == <<"y">>
N_n == <<"n">>
N_f == <<"f">>
N_g == <<"g">>
N_h == <<"h">>
N_fact == <<"f", "a", "c", "t">>

(***************************************************************************)
(* The compiler, class C of tinylisp_v0.py.  A compiler object is the      *)
(* record [bc, label_id, err]; err is "" until a SyntaxError is raised,    *)
(* after which nothing more is emitted.                                    *)
(***************************************************************************)
C_init == [bc |-> <<>>, label_id |-> 0, err |-> ""]

prim_set ==
    {N_read_all, N_parse_sexprs, N_emit, N_gensym, N_str_cat, N_to_str,
     N_sym, N_sym_name, N_sym_eq, N_intp, N_symp, N_pairp, N_nullp, N_strp,
     N_json_dumps, N_car, N_cdr, N_error}

\* variant: the name is built from the counter but the counter is not
\* stored back
gensym_stuck(c, p) ==
    [c |-> c,
     name |-> p \o IntToStr(c.label_id + 1)]

\* C.gensym: the counter is bumped, the name is prefix + counter
gensym(c, p) ==
    [c |-> [c EXCEPT !.label_id = @ + 1],
     name |-> p \o IntToStr(c.label_id + 1)]

emit(c, line) == IF c.err # "" THEN c ELSE [c EXCEPT !.bc = Append(@, line)]

raise(c, e) == IF c.err # "" THEN c ELSE [c EXCEPT !.err = e]

IsSymNamed(x, name) == x.t = "sym" /\ x.s = name

ArithOps == {N_plus, N_minus, N_times, N_div, N_lt, N_eq}

ArithInstr(name) ==
    CASE name = N_plus -> "ADD" [] name = N_minus -> "SUB"
      [] name = N_times -> "MUL" [] name = N_div -> "DIV"
      [] name = N_lt -> "LT" [] name = N_eq -> "EQ"

\* variant: every call is emitted as a primitive call
emit_call_all_prim(c, name, argc) ==
    emit(c, <<"CALLPRIM", name, IntToStr(argc)>>)

\* the last line of C.compile_form: CALLPRIM for a primitive, else CALL
emit_call(c, name, argc) ==
    IF name \in prim_set
    THEN emit(c, <<"CALLPRIM", name, IntToStr(argc)>>)
    ELSE emit(c, <<"CALL", name, IntToStr(argc)>>)

RECURSIVE compile_form(_, _), compile_forms(_, _)

\* for a in args: self.compile_form(a)
compile_forms(c, xs) ==
    IF xs = <<>> \/ c.err # "" THEN c
    ELSE compile_forms(compile_form(c, xs[1]), Tail(xs))

compile_if(c, args) ==
    IF Len(args) # 3 THEN raise(c, "SyntaxError")
    ELSE LET g1 == gensym(c, P_ELSE)
             g2 == gensym(g1.c, P_END)
             c1 == compile_form(g2.c, args[1])
             c2 == emit(c1, <<"JZ", g1.name>>)
             c3 == compile_form(c2, args[2])
             c4 == emit(emit(c3, <<"JMP", g2.name>>), <<"LABEL", g1.name>>)
             c5 == compile_form(c4, args[3])
         IN  emit(c5, <<"LABEL", g2.name>>)

\* variant: no JMP back to the top of the loop is emitted
compile_while_once(c, args) ==
    IF Len(args) < 2 THEN raise(c, "SyntaxError")
    ELSE LET g1 == gensym(c, P_TOP)
             g2 == gensym(g1.c, P_END)
             c1 == emit(g2.c, <<"LABEL", g1.name>>)
             c2 == compile_form(c1, args[1])
             c3 == emit(c2, <<"JZ", g2.name>>)
             c4 == compile_forms(c3, Tail(args))
             c5 == emit(c4, <<"LABEL", g2.name>>)
         IN  emit(c5, <<"PUSH", IntToStr(0)>>)

\* variant: the loop leaves no value behind
compile_while_no_value(c, args) ==
    IF Len(args) < 2 THEN raise(c, "SyntaxError")
    ELSE LET g1 == gensym(c, P_TOP)
             g2 == gensym(g1.c, P_END)
             c1 == emit(g2.c, <<"LABEL", g1.name>>)
             c2 == compile_form(c1, args[1])
             c3 == emit(c2, <<"JZ", g2.name>>)
             c4 == compile_forms(c3, Tail(args))
         IN  emit(emit(c4, <<"JMP", g1.name>>), <<"LABEL", g2.name>>)

compile_while(c, args) ==
    IF Len(args) < 2 THEN raise(c, "SyntaxError")
    ELSE LET g1 == gensym(c, P_TOP)
             g2 == gensym(g1.c, P_END)
             c1 == emit(g2.c, <<"LABEL", g1.name>>)
             c2 == compile_form(c1, args[1])
             c3 == emit(c2, <<"JZ", g2.name>>)
             c4 == compile_forms(c3, Tail(args))
             c5 == emit(emit(c4, <<"JMP", g1.name>>), <<"LABEL", g2.name>>)
         IN  emit(c5, <<"PUSH", IntToStr(0)>>)

compile_form(c, x) ==
    IF c.err # "" THEN c
    ELSE IF x.t = "int" THEN emit(c, <<"PUSH", IntToStr(x.n)>>)
    ELSE IF x.t = "str" THEN emit(c, <<"PUSHSTR", json_dumps(x.s)>>)
    ELSE IF x.t = "sym" THEN emit(c, <<"LOAD", x.s>>)
    ELSE IF x.l = <<>> THEN emit(c, <<"PUSH", IntToStr(0)>>)
    ELSE LET op == x.l[1]
             args == Tail(x.l)
         IN  IF IsSymNamed(op, N_begin) THEN compile_forms(c, args)
             ELSE IF IsSymNamed(op, N_if) THEN compile_if(c, args)
             ELSE IF op.t = "sym" /\ op.s \in {N_let, N_set}
                  THEN IF Len(args) # 2 \/ args[1].t # "sym"
                       THEN raise(c, "SyntaxError")
                       ELSE emit(compile_form(c, args[2]), <<"STORE", args[1].s>>)
             ELSE IF IsSymNamed(op, N_while) THEN compile_while(c, args)
             ELSE IF op.t = "sym" /\ op.s \in ArithOps
                  THEN IF Len(args) # 2 THEN raise(c, "SyntaxError")
                       ELSE emit(compile_form(compile_form(c, args[1]), args[2]),
                                 <<ArithInstr(op.s)>>)
             ELSE IF IsSymNamed(op, N_print)
                  THEN IF Len(args) # 1 THEN raise(c, "SyntaxError")
                       ELSE emit(emit(compile_form(c, args[1]), <<"PRINT">>),
                                 <<"PUSH", IntToStr(0)>>)
             ELSE IF op.t # "sym" THEN raise(c, "SyntaxError")
             ELSE emit_call(compile_forms(c, args), op.s, Len(args))

\* variant: the body is not closed by a RET
compile_define_no_ret(c, form) ==
    IF Len(form.l) # 3 THEN raise(c, "SyntaxError")
    ELSE LET sig == form.l[2]
             body == form.l[3]
         IN  IF ~(sig.t = "list" /\ sig.l # <<>> /\ sig.l[1].t = "sym")
             THEN raise(c, "SyntaxError")
             ELSE IF \E i \in 2..Len(sig.l) : sig.l[i].t # "sym"
             THEN raise(c, "SyntaxError")
             ELSE LET c1 == emit(c, <<"DEFUN">> \o [i \in 1..Len(sig.l) |-> sig.l[i].s])
                  IN  compile_form(c1, body)

\* C.compile_define: DEFUN fname p1 .. pn, the body, RET
compile_define(c, form) ==
    IF Len(form.l) # 3 THEN raise(c, "SyntaxError")
    ELSE LET sig == form.l[2]
             body == form.l[3]
         IN  IF ~(sig.t = "list" /\ sig.l # <<>> /\ sig.l[1].t = "sym")
             THEN raise(c, "SyntaxError")
             ELSE IF \E i \in 2..Len(sig.l) : sig.l[i].t # "sym"
             THEN raise(c, "SyntaxError")
             ELSE LET c1 == emit(c, <<"DEFUN">> \o [i \in 1..Len(sig.l) |-> sig.l[i].s])
                  IN  emit(compile_form(c1, body), <<"RET">>)

\* variant: only the first define is compiled
compile_defines_first(c, ds) ==
    IF ds = <<>> \/ c.err # "" THEN c
    ELSE compile_define(c, ds[1])

RECURSIVE compile_defines(_, _)
compile_defines(c, ds) ==
    IF ds = <<>> \/ c.err # "" THEN c
    ELSE compile_defines(compile_define(c, ds[1]), Tail(ds))

IsDefine(f) == f.t = "list" /\ f.l # <<>> /\ IsSymNamed(f.l[1], N_define)

IsNotDefine(f) == ~IsDefine(f)

\* variant: no JMP __START__ is emitted ahead of the function bodies
compile_program_no_jmp(fs) ==
    LET c1 == compile_defines(C_init, SelectSeq(fs, IsDefine))
        c2 == emit(c1, <<"LABEL", START>>)
        c3 == compile_forms(c2, SelectSeq(fs, IsNotDefine))
    IN  emit(emit(c3, <<"PUSH", IntToStr(0)>>), <<"RET">>)

\* variant: LABEL __START__ is emitted ahead of the define blocks
compile_program_start_first(fs) ==
    LET c0 == emit(C_init, <<"JMP", START>>)
        c1 == emit(c0, <<"LABEL", START>>)
        c2 == compile_defines(c1, SelectSeq(fs, IsDefine))
        c3 == compile_forms(c2, SelectSeq(fs, IsNotDefine))
    IN  emit(emit(c3, <<"PUSH", IntToStr(0)>>), <<"RET">>)

\* C.compile_program on a fresh compiler object
compile_program(forms) ==
    LET c0 == emit(C_init, <<"JMP", START>>)
        c1 == compile_defines(c0, SelectSeq(forms, IsDefine))
        c2 == emit(c1, <<"LABEL", START>>)
        c3 == compile_forms(c2, SelectSeq(forms, IsNotDefine))
    IN  emit(emit(c3, <<"PUSH", IntToStr(0)>>), <<"RET">>)

(***************************************************************************)
(* Python's operators on values (what a + b, a < b, str(x), repr(x), x[0]  *)
(* do for each type).  A result is [ok, v, e]: the value, or the exception *)
(* raised.                                                                 *)
(***************************************************************************)
\* the characters of the model in code-point order: the newline, then the
\* printable ASCII characters (the backquote left out)
CodePoints ==
    <<"\n", " ", "!", "\"", "#", "$", "%", "&", "'", "(", ")", "*", "+",
      ",", "-", ".", "/", "0", "1", "2", "3", "4", "5", "6", "7", "8",
      "9", ":", ";", "<", "=", ">", "?", "@", "A", "B", "C", "D", "E",
      "F", "G", "H", "I", "J", "K", "L", "M", "N", "O", "P", "Q", "R",
      "S", "T", "U", "V", "W", "X", "Y", "Z", "[", "\\", "]", "^", "_",
      "a", "b", "c", "d", "e", "f", "g", "h", "i", "j", "k", "l",
      "m", "n", "o", "p", "q", "r", "s", "t", "u", "v", "w", "x", "y",
      "z", "{", "|", "}", "~">>

Ord(ch) == CHOOSE i \in 1..Len(CodePoints) : CodePoints[i] = ch

Ok(v) == [ok |-> TRUE, v |-> v, e |-> ""]
Exc(e) == [ok |-> FALSE, v |-> VInt(0), e |-> e]

Str_(s) == <<"S", "y", "m", "(">> \o s \o <<")">>

RECURSIVE StrEscape(_, _)
StrEscape(s, quote) ==
    IF s = <<>> THEN <<>>
    ELSE (CASE s[1] = quote -> <<"\\", quote>>
            [] s[1] = "\\" -> <<"\\", "\\">>
            [] s[1] = "\n" -> <<"\\", "n">>
            [] OTHER -> <<s[1]>>) \o StrEscape(Tail(s), quote)

HasChar(s, ch) == \E i \in 1..Len(s) : s[i] = ch

\* repr(s) of a str: double quotes only when s has a ' and no "
StrRepr(s) ==
    IF HasChar(s, "'") /\ ~HasChar(s, "\"")
    THEN <<"\"">> \o StrEscape(s, "") \o <<"\"">>
    ELSE <<"'">> \o StrEscape(s, "'") \o <<"'">>

RECURSIVE PyStr(_), PyRepr(_), ReprJoin(_)

\* ", ".join(repr(e) for e in l)
ReprJoin(l) ==
    IF l = <<>> THEN <<>>
    ELSE IF Len(l) = 1 THEN PyRepr(l[1])
    ELSE PyRepr(l[1]) \o <<",", " ">> \o ReprJoin(Tail(l))

\* Sym.__repr__: f"Sym({self.name})"; a Sym made from a non-str keeps that
\* value as its name, in field l
SymName(x) == IF x.l = <<>> THEN VStr(x.s) ELSE x.l[1]

PyRepr(x) ==
    CASE x.t = "int" -> IntToStr(x.n)
      [] x.t = "str" -> StrRepr(x.s)
      [] x.t = "sym" -> Str_(PyStr(SymName(x)))
      [] x.t = "list" -> <<"[">> \o ReprJoin(x.l) \o <<"]">>

\* str(x), also what print(x) writes and f"{x}" formats
PyStr(x) == IF x.t = "str" THEN x.s ELSE PyRepr(x)

RECURSIVE Repeat(_, _)
Repeat(s, n) == IF n <= 0 THEN <<>> ELSE s \o Repeat(s, n - 1)

PyAdd(a, b) ==
    CASE a.t = "int" /\ b.t = "int" -> Ok(VInt(a.n + b.n))
      [] a.t = "str" /\ b.t = "str" -> Ok(VStr(a.s \o b.s))
      [] a.t = "list" /\ b.t = "list" -> Ok(VList(a.l \o b.l))
      [] OTHER -> Exc("TypeError")

PySub(a, b) ==
    IF a.t = "int" /\ b.t = "int" THEN Ok(VInt(a.n - b.n)) ELSE Exc("TypeError")

\* variant: a * b computed as a + b
PyMul_as_add(a, b) == PyAdd(a, b)

PyMul(a, b) ==
    CASE a.t = "int" /\ b.t = "int" -> Ok(VInt(a.n * b.n))
      [] a.t = "str" /\ b.t = "int" -> Ok(VStr(Repeat(a.s, b.n)))
      [] a.t = "int" /\ b.t = "str" -> Ok(VStr(Repeat(b.s, a.n)))
      [] a.t = "list" /\ b.t = "int" -> Ok(VList(Repeat(a.l, b.n)))
      [] a.t = "int" /\ b.t = "list" -> Ok(VList(Repeat(b.l, a.n)))
      [] OTHER -> Exc("TypeError")

\* a // b of Python ints: the floor of the quotient
FloorDiv(a, b) == IF b > 0 THEN a \div b ELSE (0 - a) \div (0 - b)

PyFloorDiv(a, b) ==
    IF a.t = "int" /\ b.t = "int"
    THEN IF b.n = 0 THEN Exc("ZeroDivisionError") ELSE Ok(VInt(FloorDiv(a.n, b.n)))
    ELSE Exc("TypeError")

RECURSIVE StrLess(_, _)
StrLess(s, u) ==
    IF u = <<>> THEN FALSE
    ELSE IF s = <<>> THEN TRUE
    ELSE IF s[1] = u[1] THEN StrLess(Tail(s), Tail(u))
    ELSE Ord(s[1]) < Ord(u[1])

\* a < b: "T", "F", or "E" where Python raises TypeError
RECURSIVE PyLess(_, _)
PyLess(a, b) ==
    CASE a.t = "int" /\ b.t = "int" -> IF a.n < b.n THEN "T" ELSE "F"
      [] a.t = "str" /\ b.t = "str" -> IF StrLess(a.s, b.s) THEN "T" ELSE "F"
      [] a.t = "list" /\ b.t = "list" ->
           LET d == {i \in 1..Len(a.l) : i <= Len(b.l) /\ a.l[i] # b.l[i]}
           IN  IF d = {} THEN (IF Len(a.l) < Len(b.l) THEN "T" ELSE "F")
               ELSE LET i == CHOOSE i \in d : \A j \in d : i <= j
                    IN  PyLess(a.l[i], b.l[i])
      [] OTHER -> "E"

PyLt(a, b) ==
    LET r == PyLess(a, b)
    IN  IF r = "E" THEN Exc("TypeError") ELSE Ok(VInt(IF r = "T" THEN 1 ELSE 0))

PyEq(a, b) == Ok(VInt(IF a = b THEN 1 ELSE 0))

(***************************************************************************)
(* The S-expression reader of vm.py (the primitive parse-sexprs); the one  *)
(* of tinylisp_v0.py is the same text.                                     *)
(***************************************************************************)
Letters ==
    {"A", "B", "C", "D", "E", "F", "G", "H", "I", "J", "K", "L", "M",
     "N", "O", "P", "Q", "R", "S", "T", "U", "V", "W", "X", "Y", "Z",
     "a", "b", "c", "d", "e", "f", "g", "h", "i", "j", "k", "l", "m",
     "n", "o", "p", "q", "r", "s", "t", "u", "v", "w", "x", "y", "z"}

IsSpace(ch) == ch \in {" ", "\n"}

\* [A-Za-z_+\-*/<>=!?] and [A-Za-z0-9_+\-*/<>=!?]
IsSymStart(ch) == ch \in Letters \cup {"_", "+", "-", "*", "/", "<", ">", "=", "!", "?"}

IsSymChar(ch) == IsSymStart(ch) \/ IsDigit(ch)

\* the end (exclusive) of the longest run of characters from i on that
\* satisfy Good
RunEnd(src, i, Good(_)) ==
    CHOOSE e \in i..(Len(src) + 1) :
        /\ \A m \in i..(e - 1) : Good(src[m])
        /\ e = Len(src) + 1 \/ ~Good(src[e])

NotNewline(ch) == ch # "\n"

\* "([^"\\]|\\.)*" from the opening quote at i: the index after the closing
\* quote, or 0 when the pattern does not match
RECURSIVE StrEnd(_, _)
StrEnd(src, j) ==
    IF j > Len(src) THEN 0
    ELSE IF src[j] = "\"" THEN j + 1
    ELSE IF src[j] = "\\"
         THEN IF j + 1 > Len(src) \/ src[j + 1] = "\n" THEN 0
              ELSE StrEnd(src, j + 2)
    ELSE StrEnd(src, j + 1)

\* _unescape_string on the body of a matched literal: the escapes \n, \\,
\* \" and \' are decoded, any other backslash pair stands for itself
RECURSIVE Unescape(_)
Unescape(b) ==
    IF b = <<>> THEN <<>>
    ELSE IF b[1] = "\\" /\ Len(b) >= 2
         THEN (CASE b[2] = "n" -> <<"\n">>
                 [] b[2] \in {"\\", "\"", "'"} -> <<b[2]>>
                 [] OTHER -> <<b[1], b[2]>>) \o Unescape(SubSeq(b, 3, Len(b)))
    ELSE <<b[1]>> \o Unescape(Tail(b))

_unescape_string(lit) == Unescape(SubSeq(lit, 2, Len(lit) - 1))

Tok(k, v) == [k |-> k, v |-> v]

\* _tok_re.match(src, i): [kind, end, text], kind "" when there is no match
\* (i and end are Python's 0-based offsets)
TokMatch(src, i) ==
    LET j == RunEnd(src, i + 1, IsSpace)
        none == [kind |-> "", end |-> i, text |-> <<>>]
        m(kind, e) == [kind |-> kind, end |-> e - 1, text |-> SubSeq(src, j, e - 1)]
    IN  IF j > Len(src) THEN none
        ELSE IF src[j] = ";" THEN m("COMMENT", RunEnd(src, j + 1, NotNewline))
        ELSE IF src[j] = "(" THEN m("LP", j + 1)
        ELSE IF src[j] = ")" THEN m("RP", j + 1)
        ELSE IF src[j] = "\"" /\ StrEnd(src, j + 1) # 0 THEN m("STR", StrEnd(src, j + 1))
        ELSE IF IsDigit(src[j]) THEN m("INT", RunEnd(src, j, IsDigit))
        ELSE IF src[j] = "-" /\ j + 1 <= Len(src) /\ IsDigit(src[j + 1])
             THEN m("INT", RunEnd(src, j + 1, IsDigit))
        ELSE IF IsSymStart(src[j]) THEN m("SYM", RunEnd(src, j + 1, IsSymChar))
        ELSE none

\* tokenize_sexpr from offset i with the tokens out so far
RECURSIVE tokenize_from(_, _, _)
tokenize_from(src, i, out) ==
    IF i >= Len(src) THEN Ok(Append(out, Tok("EOF", VInt(0))))
    ELSE LET m == TokMatch(src, i)
         IN  CASE m.kind = "" -> Exc("SyntaxError")
               [] m.kind = "COMMENT" -> tokenize_from(src, m.end, out)
               [] m.kind = "LP" ->
                    tokenize_from(src, m.end, Append(out, Tok("LP", VStr(<<"(">>))))
               [] m.kind = "RP" ->
                    tokenize_from(src, m.end, Append(out, Tok("RP", VStr(<<")">>))))
               [] m.kind = "STR" ->
                    tokenize_from(src, m.end,
                        Append(out, Tok("STR", VStr(_unescape_string(m.text)))))
               [] m.kind = "INT" ->
                    tokenize_from(src, m.end, Append(out, Tok("INT", VInt(StrToInt(m.text)))))
               [] m.kind = "SYM" ->
                    tokenize_from(src, m.end, Append(out, Tok("SYM", VStr(m.text))))

tokenize_sexpr(src) == tokenize_from(src, 0, <<>>)

\* parse_one at token k (1-based): [ok, v, k, e], k the next token
RECURSIVE parse_one(_, _), parse_list(_, _, _)
parse_one(toks, k) ==
    LET t == toks[k]
    IN  CASE t.k \in {"INT", "STR"} -> [ok |-> TRUE, v |-> t.v, k |-> k + 1, e |-> ""]
          [] t.k = "SYM" -> [ok |-> TRUE, v |-> Sym(t.v.s), k |-> k + 1, e |-> ""]
          [] t.k = "LP" -> parse_list(toks, k + 1, <<>>)
          [] OTHER -> [ok |-> FALSE, v |-> VInt(0), k |-> k, e |-> "SyntaxError: Bad token"]

\* the while loop of parse_one after eat("LP")
parse_list(toks, k, lst) ==
    IF toks[k].k = "RP" THEN [ok |-> TRUE, v |-> VList(lst), k |-> k + 1, e |-> ""]
    ELSE IF toks[k].k = "EOF"
         THEN [ok |-> FALSE, v |-> VInt(0), k |-> k, e |-> "SyntaxError: Unclosed '('"]
    ELSE LET r == parse_one(toks, k)
         IN  IF r.ok THEN parse_list(toks, r.k, Append(lst, r.v)) ELSE r

\* variant: the top-level loop stops after the first form
parse_forms_first(toks, k, forms) ==
    IF toks[k].k = "EOF" THEN [ok |-> TRUE, v |-> VList(forms), k |-> k, e |-> ""]
    ELSE LET r == parse_one(toks, k)
         IN  IF r.ok THEN [ok |-> TRUE, v |-> VList(<<r.v>>), k |-> r.k, e |-> ""]
             ELSE r

\* the top-level loop of parse_sexprs
RECURSIVE parse_forms(_, _, _)
parse_forms(toks, k, forms) ==
    IF toks[k].k = "EOF" THEN [ok |-> TRUE, v |-> VList(forms), k |-> k, e |-> ""]
    ELSE LET r == parse_one(toks, k)
         IN  IF r.ok THEN parse_forms(toks, r.k, Append(forms, r.v)) ELSE r

\* parse_sexprs of a str
parse_sexprs(src) ==
    LET tk == tokenize_sexpr(src)
    IN  IF ~tk.ok THEN Exc("SyntaxError")
        ELSE LET r == parse_forms(tk.v, 1, <<>>)
             IN  IF r.ok THEN Ok(r.v) ELSE Exc("SyntaxError")

(***************************************************************************)
(* State.  The compiler's input and output, the loaded program of run(),   *)
(* its runtime state, and the process's standard output.                   *)
(***************************************************************************)
VARIABLES
    kind,           \* "tl": a source compiled first; "bc": a bytecode text
    forms,          \* the forms handed to compile_program
    stdin_text,     \* run's second argument
    bytecode_text,  \* the lines of run's first argument
    prog, labels, fun_entry, fun_params,
    stack, frames, callstack, ip,
    out_lines, gensym_id,
    stdout,         \* the text written to standard output so far
    pc,             \* "compile", "load", "run", "returned", "exit", "error"
    err,            \* the exception that ended the process
    hist,           \* per active call: the ip and the frames at its CALL
    effects,        \* the PRINT and emit effects so far, in execution order
    reader_pc,      \* the reader on its own: "idle", "lex", "parse", "done",
                    \* "lex_error", "parse_error"
    reader_src,     \* the text handed to parse_sexprs
    reader_plain,   \* that text before whitespace and comments were added
    reader_toks,    \* the list returned by tokenize_sexpr
    reader_res      \* what the parsing loop returned or raised

inVars == <<kind, forms, stdin_text, bytecode_text>>
progVars == <<prog, labels, fun_entry, fun_params>>
readerVars == <<reader_pc, reader_src, reader_plain, reader_toks, reader_res>>
vars == <<kind, forms, stdin_text, bytecode_text, prog, labels, fun_entry,
          fun_params, stack, frames, callstack, ip, out_lines, gensym_id,
          stdout, pc, err, hist, effects, reader_pc, reader_src, reader_plain,
          reader_toks, reader_res>>

(***************************************************************************)
(* Dictionaries are functions on the set of their keys.                    *)
(***************************************************************************)
EmptyDict == <<>>

DictSet(d, k, v) == [n \in DOMAIN d \cup {k} |-> IF n = k THEN v ELSE d[n]]

Top(s) == s[Len(s)]

Pop(s) == SubSeq(s, 1, Len(s) - 1)

Last(S) == CHOOSE i \in S : \A j \in S : j <= i

(***************************************************************************)
(* The load phase of run().                                                *)
(***************************************************************************)
\* a line that strips to nothing, or starts with #
IsSkipped(line) == line = <<>> \/ line[1] = "#"

IsKept(line) == ~IsSkipped(line)

load_prog(text) == SelectSeq(text, IsKept)

\* 0-based indices of the instructions of p with opcode op
IndicesOf(p, op) == {i \in 0..(Len(p) - 1) : p[i + 1][1] = op}

\* labels[name] = i for every LABEL name at index i, the last one winning
load_labels(p) ==
    [n \in {p[i + 1][2] : i \in IndicesOf(p, "LABEL")} |->
        Last({i \in IndicesOf(p, "LABEL") : p[i + 1][2] = n})]

\* fun_entry[name] = i + 1 for every DEFUN name .. at index i
load_fun_entry(p) ==
    [n \in {p[i + 1][2] : i \in IndicesOf(p, "DEFUN")} |->
        Last({i \in IndicesOf(p, "DEFUN") : p[i + 1][2] = n}) + 1]

\* fun_params[name] = inst[2:] of that DEFUN
load_fun_params(p) ==
    [n \in {p[i + 1][2] : i \in IndicesOf(p, "DEFUN")} |->
        LET inst == p[Last({i \in IndicesOf(p, "DEFUN") : p[i + 1][2] = n}) + 1]
        IN  SubSeq(inst, 3, Len(inst))]

\* inst[1] of a LABEL or DEFUN line without operand raises IndexError
LoadFails(p) ==
    \E i \in IndicesOf(p, "LABEL") \cup IndicesOf(p, "DEFUN") : Len(p[i + 1]) < 2

(***************************************************************************)
(* Variables of a frame.                                                   *)
(***************************************************************************)
globals_env(fr) == fr[1]

\* variant: the name is looked up in every frame, innermost first
load_var_chain(fr, name) ==
    IF \E i \in 1..Len(fr) : name \in DOMAIN fr[i]
    THEN fr[Last({i \in 1..Len(fr) : name \in DOMAIN fr[i]})][name]
    ELSE VInt(0)

load_var(fr, name) ==
    IF name \in DOMAIN fr[Len(fr)] THEN fr[Len(fr)][name]
    ELSE IF name \in DOMAIN globals_env(fr) THEN globals_env(fr)[name]
    ELSE VInt(0)

\* variant: the binding is written to the global frame
store_var_global(fr, name, val) == [fr EXCEPT ![1] = DictSet(@, name, val)]

store_var(fr, name, val) == [fr EXCEPT ![Len(fr)] = DictSet(@, name, val)]

\* variant: the popped values are kept in pop order (no [::-1])
pop_args_reversed(stk, argc) == [i \in 1..argc |-> stk[Len(stk) - i + 1]]

\* [stack.pop() for _ in range(argc)][::-1]: the top argc values, in the
\* order they were pushed
pop_args(stk, argc) == SubSeq(stk, Len(stk) - argc + 1, Len(stk))

\* for p, v in zip(params, args): new_frame[p] = v  (zip stops at the
\* shorter list; a later duplicate of a name overwrites an earlier one)
new_frame(params, args) ==
    LET n == IF Len(params) < Len(args) THEN Len(params) ELSE Len(args)
    IN  [p \in {params[i] : i \in 1..n} |->
            args[Last({i \in 1..n : params[i] = p})]]

(***************************************************************************)
(* The primitive table PRIMS of run().                                     *)
(***************************************************************************)
PRIMS ==
    {N_read_all, N_parse_sexprs, N_emit, N_gensym, N_str_cat, N_to_str,
     N_sym, N_sym_name, N_sym_eq, N_intp, N_symp, N_pairp, N_nullp, N_strp,
     N_json_dumps, N_car, N_cdr, N_error}

\* the number of parameters of each entry
PrimArity(pname) ==
    IF pname = N_read_all THEN 0
    ELSE IF pname \in {N_str_cat, N_sym_eq} THEN 2
    ELSE 1

\* parse_sexprs(s): len(src) and the regex need a str; an empty list has
\* length 0 and is never matched against
prim_parse_sexprs(s) ==
    IF s.t = "str" THEN parse_sexprs(s.s)
    ELSE IF s.t = "list" /\ s.l = <<>> THEN Ok(VList(<<>>))
    ELSE Exc("TypeError")

\* variant: the name is formatted before the counter is incremented
prim_gensym_stale(prefix, id) == VStr(PyStr(prefix) \o IntToStr(id))

\* gensym_id += 1; return f"{prefix}{gensym_id}"
prim_gensym(prefix, id) == VStr(PyStr(prefix) \o IntToStr(id + 1))

prim_str_cat(a, b) == PyAdd(a, b)

prim_to_str(x) == VStr(PyStr(x))

prim_sym(s) ==
    IF s.t = "str" THEN Sym(s.s)
    ELSE [t |-> "sym", n |-> 0, s |-> <<>>, l |-> <<s>>]

prim_sym_name(x) == IF x.t = "sym" THEN Ok(SymName(x)) ELSE Exc("AttributeError")

prim_sym_eq(a, b) ==
    VInt(IF a.t = "sym" /\ b.t = "sym" /\ SymName(a) = SymName(b) THEN 1 ELSE 0)

prim_intp(x) == VInt(IF x.t = "int" THEN 1 ELSE 0)

prim_symp(x) == VInt(IF x.t = "sym" THEN 1 ELSE 0)

prim_pairp(x) == VInt(IF x.t = "list" /\ Len(x.l) > 0 THEN 1 ELSE 0)

\* variant: null? holds of every value Python treats as false
prim_nullp_falsy(x) ==
    VInt(IF x \in {VList(<<>>), VInt(0), VStr(<<>>)} THEN 1 ELSE 0)

prim_nullp(x) == VInt(IF x = VList(<<>>) THEN 1 ELSE 0)

prim_strp(x) == VInt(IF x.t = "str" THEN 1 ELSE 0)

\* json.dumps of a value: a Sym anywhere in it is not serializable
RECURSIVE JsonOk(_), JsonText(_), JsonJoin(_)
JsonOk(x) ==
    CASE x.t = "sym" -> FALSE
      [] x.t = "list" -> \A i \in 1..Len(x.l) : JsonOk(x.l[i])
      [] OTHER -> TRUE

JsonJoin(l) ==
    IF l = <<>> THEN <<>>
    ELSE IF Len(l) = 1 THEN JsonText(l[1])
    ELSE JsonText(l[1]) \o <<",", " ">> \o JsonJoin(Tail(l))

JsonText(x) ==
    CASE x.t = "int" -> IntToStr(x.n)
      [] x.t = "str" -> json_dumps(x.s)
      [] x.t = "list" -> <<"[">> \o JsonJoin(x.l) \o <<"]">>

prim_json_dumps(x) == IF JsonOk(x) THEN Ok(VStr(JsonText(x))) ELSE Exc("TypeError")

prim_car(x) ==
    CASE x.t = "list" -> IF x.l = <<>> THEN Exc("IndexError") ELSE Ok(x.l[1])
      [] x.t = "str" -> IF x.s = <<>> THEN Exc("IndexError") ELSE Ok(VStr(<<x.s[1]>>))
      [] OTHER -> Exc("TypeError")

prim_cdr(x) ==
    CASE x.t = "list" -> Ok(VList(IF x.l = <<>> THEN <<>> ELSE Tail(x.l)))
      [] x.t = "str" -> Ok(VStr(IF x.s = <<>> THEN <<>> ELSE Tail(x.s)))
      [] OTHER -> Exc("TypeError")

\* PRIMS[pname](*args): the value returned or the exception raised
prim_call(pname, args) ==
    IF Len(args) # PrimArity(pname) THEN Exc("TypeError")
    ELSE CASE pname = N_read_all -> Ok(VStr(stdin_text))
           [] pname = N_parse_sexprs -> prim_parse_sexprs(args[1])
           [] pname = N_emit -> Ok(VInt(0))
           [] pname = N_gensym -> Ok(prim_gensym(args[1], gensym_id))
           [] pname = N_str_cat -> prim_str_cat(args[1], args[2])
           [] pname = N_to_str -> Ok(prim_to_str(args[1]))
           [] pname = N_sym -> Ok(prim_sym(args[1]))
           [] pname = N_sym_name -> prim_sym_name(args[1])
           [] pname = N_sym_eq -> Ok(prim_sym_eq(args[1], args[2]))
           [] pname = N_intp -> Ok(prim_intp(args[1]))
           [] pname = N_symp -> Ok(prim_symp(args[1]))
           [] pname = N_pairp -> Ok(prim_pairp(args[1]))
           [] pname = N_nullp -> Ok(prim_nullp(args[1]))
           [] pname = N_strp -> Ok(prim_strp(args[1]))
           [] pname = N_json_dumps -> prim_json_dumps(args[1])
           [] pname = N_car -> prim_car(args[1])
           [] pname = N_cdr -> prim_cdr(args[1])
           [] pname = N_error -> Exc("RuntimeError")

\* variant: the buffered lines are joined last line first
RECURSIVE JoinLines_reversed(_)
JoinLines_reversed(ls) ==
    IF ls = <<>> THEN <<>>
    ELSE IF Len(ls) = 1 THEN ls[1].s
    ELSE JoinLines_reversed(Tail(ls)) \o <<"\n">> \o ls[1].s

\* "\n".join(out_lines), which needs every element to be a str
RECURSIVE JoinLines(_)
JoinLines(ls) ==
    IF ls = <<>> THEN <<>>
    ELSE IF Len(ls) = 1 THEN ls[1].s
    ELSE ls[1].s \o <<"\n">> \o JoinLines(Tail(ls))

(***************************************************************************)
(* The execution loop of run(), one action per opcode.                     *)
(***************************************************************************)
Inst == prog[ip + 1]

Opcodes ==
    {"PUSH", "PUSHSTR", "LOAD", "STORE", "ADD", "SUB", "MUL", "DIV", "LT",
     "EQ", "PRINT", "LABEL", "JMP", "JZ", "DEFUN", "CALL", "RET", "CALLPRIM"}

\* the model follows a run only while its state is within the bounds
Small(v) ==
    /\ v.t = "int" => (v.n <= MaxInt /\ 0 - v.n <= MaxInt)
    /\ v.t = "str" => Len(v.s) <= MaxText
    /\ v.t = "list" => Len(v.l) <= MaxText

InBounds ==
    /\ Len(stack) <= MaxStack
    /\ Len(frames) <= MaxFrames
    /\ stack # <<>> => Small(Top(stack))
    /\ Len(out_lines) <= MaxOut
    /\ Len(stdout) <= MaxOut * (MaxText + 1)
    /\ gensym_id <= MaxGensym

\* while ip < len(prog): inst = prog[ip]; op = inst[0]
Fetch(op) == pc = "run" /\ InBounds /\ ip < Len(prog) /\ Inst[1] = op

Abort(e) == pc' = "error" /\ err' = e

Continue == UNCHANGED <<pc, err>>

op_PUSH ==
    /\ Fetch("PUSH")
    /\ IF Len(Inst) < 2 THEN Abort("IndexError") /\ UNCHANGED <<stack, ip>>
       ELSE IF ~IsIntLit(Inst[2]) THEN Abort("ValueError") /\ UNCHANGED <<stack, ip>>
       ELSE /\ stack' = Append(stack, VInt(StrToInt(Inst[2])))
            /\ ip' = ip + 1
            /\ Continue
    /\ UNCHANGED <<inVars, readerVars, progVars, frames, callstack, out_lines, gensym_id, stdout, hist, effects>>

\* json.loads(inst[1]): a JSON string literal gives a str, a JSON integer an
\* int; any other text of the model is rejected (JSONDecodeError)
IsJsonInt(t) ==
    LET u == IF t # <<>> /\ t[1] = "-" THEN Tail(t) ELSE t
    IN  /\ u # <<>>
        /\ \A i \in 1..Len(u) : IsDigit(u[i])
        /\ Len(u) > 1 => u[1] # "0"

pushstr_value(t) ==
    IF JsonIsStr(t) THEN Ok(VStr(json_loads(t)))
    ELSE IF IsJsonInt(StripSpaces(t)) THEN Ok(VInt(StrToInt(StripSpaces(t))))
    ELSE Exc("ValueError")

op_PUSHSTR ==
    /\ Fetch("PUSHSTR")
    /\ IF Len(Inst) < 2 THEN Abort("IndexError") /\ UNCHANGED <<stack, ip>>
       ELSE \E res \in {pushstr_value(Inst[2])} :
            IF ~res.ok THEN Abort(res.e) /\ UNCHANGED <<stack, ip>>
            ELSE /\ stack' = Append(stack, res.v)
                 /\ ip' = ip + 1
                 /\ Continue
    /\ UNCHANGED <<inVars, readerVars, progVars, frames, callstack, out_lines, gensym_id, stdout, hist, effects>>

op_LOAD ==
    /\ Fetch("LOAD")
    /\ IF Len(Inst) < 2 THEN Abort("IndexError") /\ UNCHANGED <<stack, ip>>
       ELSE /\ stack' = Append(stack, load_var(frames, Inst[2]))
            /\ ip' = ip + 1
            /\ Continue
    /\ UNCHANGED <<inVars, readerVars, progVars, frames, callstack, out_lines, gensym_id, stdout, hist, effects>>

op_STORE ==
    /\ Fetch("STORE")
    /\ IF Len(Inst) < 2 \/ stack = <<>>
       THEN Abort("IndexError") /\ UNCHANGED <<stack, frames, ip>>
       ELSE /\ frames' = store_var(frames, Inst[2], Top(stack))
            /\ stack' = Pop(stack)
            /\ ip' = ip + 1
            /\ Continue
    /\ UNCHANGED <<inVars, readerVars, progVars, callstack, out_lines, gensym_id, stdout, hist, effects>>

\* b, a = stack.pop(), stack.pop(); stack.append(F(a, b))
BinOp(op, F(_, _)) ==
    /\ Fetch(op)
    /\ IF Len(stack) < 2
       THEN Abort("IndexError") /\ stack' = <<>> /\ UNCHANGED ip
       ELSE LET b == stack[Len(stack)]
                a == stack[Len(stack) - 1]
                rest == SubSeq(stack, 1, Len(stack) - 2)
            IN  \E res \in {F(a, b)} :
                IF res.ok
                THEN stack' = Append(rest, res.v) /\ ip' = ip + 1 /\ Continue
                ELSE Abort(res.e) /\ stack' = rest /\ UNCHANGED ip
    /\ UNCHANGED <<inVars, readerVars, progVars, frames, callstack, out_lines, gensym_id, stdout, hist, effects>>

op_ADD == BinOp("ADD", PyAdd)

op_SUB == BinOp("SUB", PySub)

op_MUL == BinOp("MUL", PyMul)

op_DIV == BinOp("DIV", PyFloorDiv)

op_LT == BinOp("LT", PyLt)

op_EQ == BinOp("EQ", PyEq)

op_PRINT ==
    /\ Fetch("PRINT")
    /\ IF stack = <<>> THEN Abort("IndexError") /\ UNCHANGED <<stack, stdout, ip, effects>>
       ELSE /\ stdout' = stdout \o PyStr(Top(stack)) \o <<"\n">>
            /\ effects' = Append(effects, [k |-> "PRINT", v |-> VStr(PyStr(Top(stack)))])
            /\ stack' = Pop(stack)
            /\ ip' = ip + 1
            /\ Continue
    /\ UNCHANGED <<inVars, readerVars, progVars, frames, callstack, out_lines, gensym_id, hist>>

op_LABEL ==
    /\ Fetch("LABEL")
    /\ ip' = ip + 1
    /\ UNCHANGED <<inVars, readerVars, progVars, stack, frames, callstack, out_lines, gensym_id,
                   stdout, pc, err, hist, effects>>

op_JMP ==
    /\ Fetch("JMP")
    /\ IF Len(Inst) < 2 THEN Abort("IndexError") /\ UNCHANGED ip
       ELSE IF Inst[2] \notin DOMAIN labels THEN Abort("KeyError") /\ UNCHANGED ip
       ELSE ip' = labels[Inst[2]] /\ Continue
    /\ UNCHANGED <<inVars, readerVars, progVars, stack, frames, callstack, out_lines, gensym_id,
                   stdout, hist, effects>>

\* variant: the jump is taken for every value but the int 0
jz_taken_nonzero(cond) == cond # VInt(0)

\* the value popped by JZ makes it jump iff it equals the int 0
jz_taken(cond) == cond = VInt(0)

op_JZ ==
    /\ Fetch("JZ")
    /\ IF stack = <<>> THEN Abort("IndexError") /\ UNCHANGED <<stack, ip>>
       ELSE /\ stack' = Pop(stack)
            /\ IF ~jz_taken(Top(stack)) THEN ip' = ip + 1 /\ Continue
               ELSE IF Len(Inst) < 2 THEN Abort("IndexError") /\ UNCHANGED ip
               ELSE IF Inst[2] \notin DOMAIN labels THEN Abort("KeyError") /\ UNCHANGED ip
               ELSE ip' = labels[Inst[2]] /\ Continue
    /\ UNCHANGED <<inVars, readerVars, progVars, frames, callstack, out_lines, gensym_id, stdout, hist, effects>>

\* variant: DEFUN steps over the instruction that follows it
op_DEFUN_skip ==
    /\ Fetch("DEFUN")
    /\ ip' = ip + 2
    /\ UNCHANGED <<inVars, readerVars, progVars, stack, frames, callstack, out_lines, gensym_id,
                   stdout, pc, err, hist, effects>>

\* elif op == "DEFUN": pass
op_DEFUN ==
    /\ Fetch("DEFUN")
    /\ ip' = ip + 1
    /\ UNCHANGED <<inVars, readerVars, progVars, stack, frames, callstack, out_lines, gensym_id,
                   stdout, pc, err, hist, effects>>

\* variant: the CALL's own index is saved as the resume point
return_address_same(at) == at

\* callstack.append(ip + 1): the resume point of a CALL at index at
return_address(at) == at + 1

\* variant: RET reads callstack[-1] and leaves it on the return stack
ret_callstack_keep(cs) == cs

\* ip = callstack.pop(): what is left on the return stack
ret_callstack(cs) == Pop(cs)

\* the two checks of CALL: "" when the call may proceed
\* variant: the parameter count is not compared with argc
call_error_no_arity(fname, argc) ==
    IF fname \notin DOMAIN fun_entry THEN "RuntimeError: CALL unknown function"
    ELSE ""

call_error(fname, argc) ==
    IF fname \notin DOMAIN fun_entry THEN "RuntimeError: CALL unknown function"
    ELSE IF Len(fun_params[fname]) # argc THEN "RuntimeError: CALL arity mismatch"
    ELSE ""

op_CALL ==
    /\ Fetch("CALL")
    /\ IF Len(Inst) < 3
       THEN Abort("IndexError") /\ UNCHANGED <<stack, frames, callstack, ip, hist>>
       ELSE IF ~IsIntLit(Inst[3])
       THEN Abort("ValueError") /\ UNCHANGED <<stack, frames, callstack, ip, hist>>
       ELSE LET fname == Inst[2]
                argc == StrToInt(Inst[3])
            IN  IF call_error(fname, argc) # ""
                THEN /\ Abort(call_error(fname, argc))
                     /\ UNCHANGED <<stack, frames, callstack, ip, hist>>
                ELSE IF Len(stack) < argc
                THEN /\ Abort("IndexError")
                     /\ stack' = <<>>
                     /\ UNCHANGED <<frames, callstack, ip, hist>>
                ELSE /\ stack' = SubSeq(stack, 1, Len(stack) - argc)
                     /\ frames' = Append(frames,
                                      new_frame(fun_params[fname], pop_args(stack, argc)))
                     /\ callstack' = Append(callstack, return_address(ip))
                     /\ hist' = Append(hist, [ip |-> ip, frames |-> frames])
                     /\ ip' = fun_entry[fname]
                     /\ Continue
    /\ UNCHANGED <<inVars, readerVars, progVars, out_lines, gensym_id, stdout, effects>>

\* return "\n".join(out_lines): run returns, or join raises TypeError
Return ==
    IF \A i \in 1..Len(out_lines) : out_lines[i].t = "str"
    THEN pc' = "returned" /\ UNCHANGED err
    ELSE Abort("TypeError")

\* variant: RET ends the loop only when no frame is left
ret_is_exit_empty(fr) == Len(fr) = 0

\* RET at top level ends the loop
ret_is_exit(fr) == Len(fr) = 1

op_RET ==
    /\ Fetch("RET")
    /\ IF ret_is_exit(frames)
       THEN Return /\ UNCHANGED <<frames, callstack, ip, hist>>
       ELSE IF callstack = <<>>
       THEN /\ Abort("IndexError")
            /\ frames' = Pop(frames)
            /\ UNCHANGED <<callstack, ip, hist>>
       ELSE /\ frames' = Pop(frames)
            /\ ip' = Top(callstack)
            /\ callstack' = ret_callstack(callstack)
            /\ hist' = Pop(hist)
            /\ Continue
    /\ UNCHANGED <<inVars, readerVars, progVars, stack, out_lines, gensym_id, stdout, effects>>

op_CALLPRIM ==
    /\ Fetch("CALLPRIM")
    /\ IF Len(Inst) < 3
       THEN Abort("IndexError") /\ UNCHANGED <<stack, out_lines, gensym_id, ip, effects>>
       ELSE IF ~IsIntLit(Inst[3])
       THEN Abort("ValueError") /\ UNCHANGED <<stack, out_lines, gensym_id, ip, effects>>
       ELSE LET pname == Inst[2]
                argc == StrToInt(Inst[3])
                args == IF argc <= 0 THEN <<>> ELSE pop_args(stack, argc)
                rest == IF argc <= 0 THEN stack ELSE SubSeq(stack, 1, Len(stack) - argc)
            IN  IF pname \notin PRIMS
                THEN /\ Abort("RuntimeError: Unknown primitive")
                     /\ UNCHANGED <<stack, out_lines, gensym_id, ip, effects>>
                ELSE IF Len(stack) < argc
                THEN /\ Abort("IndexError")
                     /\ stack' = <<>>
                     /\ UNCHANGED <<out_lines, gensym_id, ip, effects>>
                ELSE \E res \in {prim_call(pname, args)} :
                     IF ~res.ok
                     THEN /\ Abort(res.e)
                          /\ stack' = rest
                          /\ UNCHANGED <<out_lines, gensym_id, ip, effects>>
                     ELSE /\ stack' = Append(rest, res.v)
                          /\ out_lines' = IF pname = N_emit THEN Append(out_lines, args[1])
                                          ELSE out_lines
                          /\ effects' =
                                 IF pname = N_emit
                                 THEN Append(effects, [k |-> "emit", v |-> args[1]])
                                 ELSE IF pname = N_gensym
                                 THEN Append(effects, [k |-> "gensym", v |-> res.v,
                                                       p |-> args[1]])
                                 ELSE effects
                          /\ gensym_id' = IF pname = N_gensym THEN gensym_id + 1
                                          ELSE gensym_id
                          /\ ip' = ip + 1
                          /\ Continue
    /\ UNCHANGED <<inVars, readerVars, progVars, frames, callstack, stdout, hist>>

\* the else branch of the dispatch
op_unknown ==
    /\ pc = "run" /\ InBounds /\ ip < Len(prog) /\ Inst[1] \notin Opcodes
    /\ Abort("RuntimeError: Unknown instruction")
    /\ UNCHANGED <<inVars, readerVars, progVars, stack, frames, callstack, ip, out_lines, gensym_id,
                   stdout, hist, effects>>

\* the loop condition fails: ip has run past the last instruction
run_off_end ==
    /\ pc = "run" /\ InBounds /\ ip >= Len(prog)
    /\ Return
    /\ UNCHANGED <<inVars, readerVars, progVars, stack, frames, callstack, ip, out_lines, gensym_id,
                   stdout, hist, effects>>

\* main() of vm.py after run() has returned: the emitted text is written
main_write ==
    /\ pc = "returned"
    /\ LET emitted == JoinLines(out_lines)
       IN  stdout' = IF emitted = <<>> THEN stdout
                     ELSE IF emitted[Len(emitted)] = "\n" THEN stdout \o emitted
                     ELSE stdout \o emitted \o <<"\n">>
    /\ pc' = "exit"
    /\ UNCHANGED <<inVars, readerVars, progVars, stack, frames, callstack, ip, out_lines, gensym_id,
                   err, hist, effects>>

(***************************************************************************)
(* The two programs run one after the other: tinylisp_v0.main compiles the *)
(* source, vm.run loads the text it printed.                               *)
(***************************************************************************)
Compile ==
    /\ pc = "compile"
    /\ \E c \in {compile_program(forms)} :
           IF c.err # ""
           THEN Abort(c.err) /\ UNCHANGED bytecode_text
           ELSE bytecode_text' = c.bc /\ pc' = "load" /\ UNCHANGED err
    /\ UNCHANGED <<kind, forms, stdin_text, readerVars, progVars, stack, frames,
                   callstack, ip, out_lines, gensym_id, stdout, hist, effects>>

Load ==
    /\ pc = "load"
    /\ \E p \in {load_prog(bytecode_text)} :
           IF LoadFails(p)
           THEN /\ Abort("IndexError")
                /\ prog' = p
                /\ UNCHANGED <<labels, fun_entry, fun_params, frames>>
           ELSE /\ prog' = p
                /\ labels' = load_labels(p)
                /\ fun_entry' = load_fun_entry(p)
                /\ fun_params' = load_fun_params(p)
                /\ frames' = <<EmptyDict>>
                /\ pc' = "run"
                /\ UNCHANGED err
    /\ UNCHANGED <<inVars, readerVars, stack, callstack, ip, out_lines, gensym_id, stdout, hist, effects>>

(***************************************************************************)
(* Inputs.  Source programs are the sequences of at most MaxForms forms    *)
(* from Pool, and the programs of Sources; bytecode texts are the          *)
(* sequences of at most MaxRawLen lines from RawLines, and the texts of    *)
(* RawTexts.                                                               *)
(***************************************************************************)
\* (define (f x) (begin (let x (+ x 1)) x))
D_f ==
    VList(<<Sym(N_define), VList(<<Sym(N_f), Sym(N_x)>>),
      VList(<<Sym(N_begin), VList(<<Sym(N_let), Sym(N_x),
      VList(<<Sym(N_plus), Sym(N_x), VInt(1)>>)>>), Sym(N_x)>>)>>)

\* (define (g) x)
D_g ==
    VList(<<Sym(N_define), VList(<<Sym(N_g)>>), Sym(N_x)>>)

\* (define (h x) (g))
D_h ==
    VList(<<Sym(N_define), VList(<<Sym(N_h), Sym(N_x)>>),
      VList(<<Sym(N_g)>>)>>)

\* (define (f n) (if (== n 0) 0 (f (- n 1))))
D_rec ==
    VList(<<Sym(N_define), VList(<<Sym(N_f), Sym(N_n)>>),
      VList(<<Sym(N_if), VList(<<Sym(N_eq), Sym(N_n), VInt(0)>>), VInt(0),
      VList(<<Sym(N_f), VList(<<Sym(N_minus), Sym(N_n), VInt(1)>>)>>)>>)>>)

\* (define (g x y) (- x y))
D_sub ==
    VList(<<Sym(N_define), VList(<<Sym(N_g), Sym(N_x), Sym(N_y)>>),
      VList(<<Sym(N_minus), Sym(N_x), Sym(N_y)>>)>>)

\* (define (f x x) x)
D_dup ==
    VList(<<Sym(N_define), VList(<<Sym(N_f), Sym(N_x), Sym(N_x)>>),
      Sym(N_x)>>)

\* (define (h) (while (< x 2) (let x (+ x 1))))
D_loop ==
    VList(<<Sym(N_define), VList(<<Sym(N_h)>>), VList(<<Sym(N_while),
      VList(<<Sym(N_lt), Sym(N_x), VInt(2)>>), VList(<<Sym(N_let),
      Sym(N_x), VList(<<Sym(N_plus), Sym(N_x), VInt(1)>>)>>)>>)>>)

\* (let x 1)
T_let ==
    VList(<<Sym(N_let), Sym(N_x), VInt(1)>>)

\* (print x)
T_print ==
    VList(<<Sym(N_print), Sym(N_x)>>)

\* (print (f 1))
T_call_f ==
    VList(<<Sym(N_print), VList(<<Sym(N_f), VInt(1)>>)>>)

\* (g)
T_call_g ==
    VList(<<Sym(N_g)>>)

\* (h 1)
T_call_h ==
    VList(<<Sym(N_h), VInt(1)>>)

\* (print (g 2 1))
T_call_g2 ==
    VList(<<Sym(N_print), VList(<<Sym(N_g), VInt(2), VInt(1)>>)>>)

\* (if x (print 1) (let y 2))
T_if ==
    VList(<<Sym(N_if), Sym(N_x), VList(<<Sym(N_print), VInt(1)>>),
      VList(<<Sym(N_let), Sym(N_y), VInt(2)>>)>>)

\* (while (< x 2) (let x (+ x 1)))
T_while ==
    VList(<<Sym(N_while), VList(<<Sym(N_lt), Sym(N_x), VInt(2)>>),
      VList(<<Sym(N_let), Sym(N_x), VList(<<Sym(N_plus), Sym(N_x),
      VInt(1)>>)>>)>>)

\* (if (f 1) (while 0 1) (if 0 1 2))
T_nest ==
    VList(<<Sym(N_if), VList(<<Sym(N_f), VInt(1)>>), VList(<<Sym(N_while),
      VInt(0), VInt(1)>>), VList(<<Sym(N_if), VInt(0), VInt(1),
      VInt(2)>>)>>)

\* (emit "a")
T_emit ==
    VList(<<Sym(N_emit), VStr(<<"a">>)>>)

\* (begin)
T_begin ==
    VList(<<Sym(N_begin)>>)

\* (if 1)
T_bad ==
    VList(<<Sym(N_if), VInt(1)>>)

Pool ==
    {D_f, D_g, D_h, D_rec, D_sub, D_dup,
     D_loop, T_let, T_print, T_call_f, T_call_g, T_call_h,
     T_call_g2, T_if, T_while, T_nest, T_emit, T_begin,
     T_bad}

\* (define (fact n) (if (== n 0) 1 (* n (fact (- n 1))))) (print (fact 3))
S_fact ==
    <<VList(<<Sym(N_define), VList(<<Sym(N_fact), Sym(N_n)>>),
      VList(<<Sym(N_if), VList(<<Sym(N_eq), Sym(N_n), VInt(0)>>), VInt(1),
      VList(<<Sym(N_times), Sym(N_n), VList(<<Sym(N_fact),
      VList(<<Sym(N_minus), Sym(N_n), VInt(1)>>)>>)>>)>>)>>),
      VList(<<Sym(N_print), VList(<<Sym(N_fact), VInt(3)>>)>>)>>

\* (let x 1) (define (f) (let x 2)) (f) (print x)
S_scope ==
    <<VList(<<Sym(N_let), Sym(N_x), VInt(1)>>), VList(<<Sym(N_define),
      VList(<<Sym(N_f)>>), VList(<<Sym(N_let), Sym(N_x), VInt(2)>>)>>),
      VList(<<Sym(N_f)>>), VList(<<Sym(N_print), Sym(N_x)>>)>>

\* (let x 2) (let y 0) (while (< y x) (begin (print y) (let y (+ y 1))))
S_count ==
    <<VList(<<Sym(N_let), Sym(N_x), VInt(2)>>), VList(<<Sym(N_let),
      Sym(N_y), VInt(0)>>), VList(<<Sym(N_while), VList(<<Sym(N_lt),
      Sym(N_y), Sym(N_x)>>), VList(<<Sym(N_begin), VList(<<Sym(N_print),
      Sym(N_y)>>), VList(<<Sym(N_let), Sym(N_y), VList(<<Sym(N_plus),
      Sym(N_y), VInt(1)>>)>>)>>)>>)>>

\* (define (f y) (+ (g) y)) (define (g) (h 2)) (define (h x) (if x (begin (let y 1) (+ x y)) 0)) (let x 1) (print (f x)) (print y)
S_deep ==
    <<VList(<<Sym(N_define), VList(<<Sym(N_f), Sym(N_y)>>),
      VList(<<Sym(N_plus), VList(<<Sym(N_g)>>), Sym(N_y)>>)>>),
      VList(<<Sym(N_define), VList(<<Sym(N_g)>>), VList(<<Sym(N_h),
      VInt(2)>>)>>), VList(<<Sym(N_define), VList(<<Sym(N_h), Sym(N_x)>>),
      VList(<<Sym(N_if), Sym(N_x), VList(<<Sym(N_begin),
      VList(<<Sym(N_let), Sym(N_y), VInt(1)>>), VList(<<Sym(N_plus),
      Sym(N_x), Sym(N_y)>>)>>), VInt(0)>>)>>), VList(<<Sym(N_let),
      Sym(N_x), VInt(1)>>), VList(<<Sym(N_print), VList(<<Sym(N_f),
      Sym(N_x)>>)>>), VList(<<Sym(N_print), Sym(N_y)>>)>>

\* (define (g x y) (- x y)) (define (f x) (g x (begin (let x 3) 1))) (print (f 2))
S_order ==
    <<VList(<<Sym(N_define), VList(<<Sym(N_g), Sym(N_x), Sym(N_y)>>),
      VList(<<Sym(N_minus), Sym(N_x), Sym(N_y)>>)>>),
      VList(<<Sym(N_define), VList(<<Sym(N_f), Sym(N_x)>>),
      VList(<<Sym(N_g), Sym(N_x), VList(<<Sym(N_begin), VList(<<Sym(N_let),
      Sym(N_x), VInt(3)>>), VInt(1)>>)>>)>>), VList(<<Sym(N_print),
      VList(<<Sym(N_f), VInt(2)>>)>>)>>

\* (begin (define (f) 1)) (print (f))
S_nodef ==
    <<VList(<<Sym(N_begin), VList(<<Sym(N_define), VList(<<Sym(N_f)>>),
      VInt(1)>>)>>), VList(<<Sym(N_print), VList(<<Sym(N_f)>>)>>)>>

\* (emit "a") (print 1) (emit "b") (print 2)
S_mixed ==
    <<VList(<<Sym(N_emit), VStr(<<"a">>)>>), VList(<<Sym(N_print), VInt(1)>>),
      VList(<<Sym(N_emit), VStr(<<"b">>)>>), VList(<<Sym(N_print), VInt(2)>>)>>

\* (emit "a") (print 1) (error "x") (emit "b")
S_emit_error ==
    <<VList(<<Sym(N_emit), VStr(<<"a">>)>>), VList(<<Sym(N_print), VInt(1)>>),
      VList(<<Sym(N_error), VStr(<<"x">>)>>),
      VList(<<Sym(N_emit), VStr(<<"b">>)>>)>>

\* (print (begin))
S_print_begin ==
    <<VList(<<Sym(N_print), VList(<<Sym(N_begin)>>)>>)>>

\* (print 9) (let y 0) (while (< y 2) (begin (print y) (let y (+ y 1))))
S_loop1 ==
    <<VList(<<Sym(N_print), VInt(9)>>),
      VList(<<Sym(N_let), Sym(N_y), VInt(0)>>),
      VList(<<Sym(N_while), VList(<<Sym(N_lt), Sym(N_y), VInt(2)>>),
        VList(<<Sym(N_begin), VList(<<Sym(N_print), Sym(N_y)>>),
          VList(<<Sym(N_let), Sym(N_y),
            VList(<<Sym(N_plus), Sym(N_y), VInt(1)>>)>>)>>)>>)>>

\* (print 9) (let y 0)
\* (while (< y 2) (begin (print y) (print y) (let y (+ y 1))))
S_loop2 ==
    <<VList(<<Sym(N_print), VInt(9)>>),
      VList(<<Sym(N_let), Sym(N_y), VInt(0)>>),
      VList(<<Sym(N_while), VList(<<Sym(N_lt), Sym(N_y), VInt(2)>>),
        VList(<<Sym(N_begin), VList(<<Sym(N_print), Sym(N_y)>>),
          VList(<<Sym(N_print), Sym(N_y)>>),
          VList(<<Sym(N_let), Sym(N_y),
            VList(<<Sym(N_plus), Sym(N_y), VInt(1)>>)>>)>>)>>)>>

Sources ==
    {S_fact, S_scope, S_count, S_deep, S_order, S_nodef, S_mixed, S_emit_error,
     S_print_begin, S_loop1, S_loop2}

RawLines ==
    {<<"PUSH", <<"1">>>>,
     <<"PUSH", <<"0">>>>,
     <<"LOAD", N_x>>,
     <<"STORE", N_x>>,
     <<"ADD">>,
     <<"PRINT">>,
     <<"LABEL", <<"L">>>>,
     <<"JMP", <<"L">>>>,
     <<"JZ", <<"L">>>>,
     <<"DEFUN", N_f, N_x>>,
     <<"CALL", N_f, <<"1">>>>,
     <<"CALL", N_g, <<"0">>>>,
     <<"RET">>,
     <<"CALLPRIM", N_emit, <<"1">>>>,
     <<"FOO">>,
     <<"#">>,
     <<>>}

\* a function with a repeated parameter name
R_dup ==
    <<<<"JMP", <<"S">>>>, <<"DEFUN", N_f, N_x, N_x>>, <<"LOAD", N_x>>,
      <<"RET">>, <<"LABEL", <<"S">>>>, <<"PUSH", <<"1">>>>, <<"PUSH",
      <<"2">>>>, <<"CALL", N_f, <<"2">>>>, <<"PRINT">>, <<"RET">>>>

\* a function body that jumps to top-level code
R_escape ==
    <<<<"JMP", <<"S">>>>, <<"DEFUN", N_f>>, <<"JMP", <<"T">>>>, <<"LABEL",
      <<"S">>>>, <<"CALL", N_f, <<"0">>>>, <<"PUSH", <<"1">>>>, <<"LABEL",
      <<"T">>>>, <<"PUSH", <<"2">>>>, <<"STORE", N_x>>, <<"RET">>>>

\* three frames; only the middle one binds x
R_deep ==
    <<<<"JMP", <<"S">>>>, <<"DEFUN", N_f, N_x>>, <<"CALL", N_g, <<"0">>>>,
      <<"RET">>, <<"DEFUN", N_g>>, <<"LOAD", N_x>>, <<"STORE", N_y>>,
      <<"LOAD", N_y>>, <<"RET">>, <<"LABEL", <<"S">>>>, <<"PUSH",
      <<"1">>>>, <<"CALL", N_f, <<"1">>>>, <<"PRINT">>>>

\* operand errors and an arity mismatch
R_arity ==
    <<<<"#">>, <<>>, <<"JMP", <<"S">>>>, <<"DEFUN", N_f, N_x>>, <<"RET">>,
      <<"LABEL", <<"S">>>>, <<"PUSH", <<"1">>>>, <<"PUSH", <<"2">>>>,
      <<"CALL", N_f, <<"2">>>>, <<"PRINT">>>>

\* the primitives on the text read from stdin
R_prims ==
    <<<<"CALLPRIM", N_read_all, <<"0">>>>, <<"CALLPRIM", N_parse_sexprs,
      <<"1">>>>, <<"STORE", N_x>>, <<"LOAD", N_x>>, <<"CALLPRIM", N_car,
      <<"1">>>>, <<"CALLPRIM", N_cdr, <<"1">>>>, <<"CALLPRIM", N_car,
      <<"1">>>>, <<"CALLPRIM", N_to_str, <<"1">>>>, <<"PUSHSTR", <<"\"",
      "L", "\"">>>>, <<"CALLPRIM", N_gensym, <<"1">>>>, <<"CALLPRIM",
      N_str_cat, <<"2">>>>, <<"CALLPRIM", N_emit, <<"1">>>>, <<"PRINT">>,
      <<"PUSHSTR", <<"\"", "b", " ", "c", "\"">>>>, <<"CALLPRIM", N_sym,
      <<"1">>>>, <<"CALLPRIM", N_sym_name, <<"1">>>>, <<"CALLPRIM",
      N_json_dumps, <<"1">>>>, <<"CALLPRIM", N_emit, <<"1">>>>>>

\* arithmetic and comparison
R_arith ==
    <<<<"PUSH", <<"3">>>>, <<"PUSH", <<"-", "2">>>>, <<"DIV">>, <<"PUSH",
      <<"2">>>>, <<"MUL">>, <<"PUSH", <<"1">>>>, <<"SUB">>, <<"PUSH",
      <<"-", "5">>>>, <<"LT">>, <<"PUSHSTR", <<"\"", "a", "\"">>>>,
      <<"EQ">>, <<"PRINT">>, <<"PUSH", <<"1">>>>, <<"PUSH", <<"0">>>>,
      <<"DIV">>>>

\* cdr, then car, of the empty list parsed from an empty stdin
R_nil ==
    <<<<"CALLPRIM", N_read_all, <<"0">>>>, <<"CALLPRIM", N_parse_sexprs,
      <<"1">>>>, <<"STORE", N_x>>, <<"LOAD", N_x>>, <<"CALLPRIM", N_cdr,
      <<"1">>>>, <<"PRINT">>, <<"LOAD", N_x>>, <<"CALLPRIM", N_car,
      <<"1">>>>, <<"PRINT">>>>

\* gensym "L1" once, gensym "L" ten times, and compare the first name with
\* the last
R_gensym ==
    <<<<"PUSHSTR", <<"\"", "L", "1", "\"">>>>, <<"CALLPRIM", N_gensym, <<"1">>>>,
      <<"STORE", N_f>>, <<"PUSH", <<"2">>>>, <<"STORE", N_x>>,
      <<"LABEL", <<"T">>>>, <<"LOAD", N_x>>, <<"PUSH", <<"1", "1">>>>, <<"LT">>,
      <<"JZ", <<"E">>>>, <<"PUSHSTR", <<"\"", "L", "\"">>>>,
      <<"CALLPRIM", N_gensym, <<"1">>>>, <<"STORE", N_y>>, <<"LOAD", N_x>>,
      <<"PUSH", <<"1">>>>, <<"ADD">>, <<"STORE", N_x>>, <<"JMP", <<"T">>>>,
      <<"LABEL", <<"E">>>>, <<"PUSHSTR", <<"\"", "L", "\"">>>>,
      <<"CALLPRIM", N_gensym, <<"1">>>>, <<"LOAD", N_f>>, <<"EQ">>, <<"PRINT">>>>

\* the five type predicates applied to the first form read from stdin
R_types ==
    <<<<"CALLPRIM", N_read_all, <<"0">>>>, <<"CALLPRIM", N_parse_sexprs, <<"1">>>>,
      <<"CALLPRIM", N_car, <<"1">>>>, <<"STORE", N_x>>,
      <<"LOAD", N_x>>, <<"CALLPRIM", N_intp, <<"1">>>>, <<"PRINT">>,
      <<"LOAD", N_x>>, <<"CALLPRIM", N_strp, <<"1">>>>, <<"PRINT">>,
      <<"LOAD", N_x>>, <<"CALLPRIM", N_symp, <<"1">>>>, <<"PRINT">>,
      <<"LOAD", N_x>>, <<"CALLPRIM", N_pairp, <<"1">>>>, <<"PRINT">>,
      <<"LOAD", N_x>>, <<"CALLPRIM", N_nullp, <<"1">>>>, <<"PRINT">>>>

\* 1, 0, "s", "", a, (), (a), (())
TypeTexts ==
    {<<"1">>, <<"0">>, <<"\"", "s", "\"">>, <<"\"", "\"">>, <<"a">>, <<"(", ")">>,
     <<"(", "a", ")">>, <<"(", "(", ")", ")">>}

RawTexts ==
    {R_dup, R_escape, R_deep, R_arity, R_prims, R_arith, R_nil, R_gensym, R_types}

SeqsUpTo(S, n) == UNION {[1..k -> S] : k \in 0..n}

\* (define (fact n) (if (== n 0) 1 (* n (fact (- n 1))))) (print (fact k))
fact_program(k) ==
    <<S_fact[1], VList(<<Sym(N_print), VList(<<Sym(N_fact), VInt(k)>>)>>)>>

FactPrograms == {fact_program(k) : k \in 0..MaxFact}

\* (let x k) (let y 0) (while (< y x) (begin (print y) (let y (+ y 1))))
count_program(k) ==
    <<VList(<<Sym(N_let), Sym(N_x), VInt(k)>>), S_count[2], S_count[3]>>

CountPrograms == {count_program(k) : k \in 0..MaxCount}

SourcePrograms ==
    SeqsUpTo(Pool, MaxForms) \cup Sources \cup FactPrograms \cup CountPrograms

RawPrograms == SeqsUpTo(RawLines, MaxRawLen) \cup RawTexts

\* the text on stdin: one source text for the program that reads it
StdinTexts(text) ==
    IF text = R_prims THEN {<<>>, <<"(", "(", "a", " ", "\"", "b", "\"", ")", " ", "1", ")">>}
    ELSE IF text = R_types THEN TypeTexts
    ELSE {<<>>}

(***************************************************************************)
(* The specification.                                                      *)
(***************************************************************************)
Init ==
    /\ \/ /\ kind = "tl"
          /\ forms \in SourcePrograms
          /\ bytecode_text = <<>>
          /\ pc = "compile"
       \/ /\ kind = "bc"
          /\ forms = <<>>
          /\ bytecode_text \in RawPrograms
          /\ pc = "load"
    /\ stdin_text \in StdinTexts(bytecode_text)
    /\ prog = <<>>
    /\ labels = EmptyDict
    /\ fun_entry = EmptyDict
    /\ fun_params = EmptyDict
    /\ stack = <<>>
    /\ frames = <<>>
    /\ callstack = <<>>
    /\ ip = 0
    /\ out_lines = <<>>
    /\ gensym_id = 0
    /\ stdout = <<>>
    /\ err = ""
    /\ hist = <<>>
    /\ effects = <<>>
    /\ reader_pc = "idle"
    /\ reader_src = <<>>
    /\ reader_plain = <<>>
    /\ reader_toks = <<>>
    /\ reader_res = <<>>

Next ==
    \/ Compile
    \/ Load
    \/ op_PUSH
    \/ op_PUSHSTR
    \/ op_LOAD
    \/ op_STORE
    \/ op_ADD
    \/ op_SUB
    \/ op_MUL
    \/ op_DIV
    \/ op_LT
    \/ op_EQ
    \/ op_PRINT
    \/ op_LABEL
    \/ op_JMP
    \/ op_JZ
    \/ op_DEFUN
    \/ op_CALL
    \/ op_RET
    \/ op_CALLPRIM
    \/ op_unknown
    \/ run_off_end
    \/ main_write

Spec == Init /\ [][Next]_vars

(***************************************************************************)
(* The reader on its own: parse_sexprs applied to a text, tokenize_sexpr   *)
(* first and the parsing loop after it.                                    *)
(***************************************************************************)
mainVars ==
    <<inVars, progVars, stack, frames, callstack, ip, out_lines, gensym_id,
      stdout, pc, err, hist, effects>>

RECURSIVE JoinSpaced(_)
JoinSpaced(ts) ==
    IF ts = <<>> THEN <<>>
    ELSE IF Len(ts) = 1 THEN ts[1]
    ELSE ts[1] \o <<" ">> \o JoinSpaced(Tail(ts))

\* the texts of the tokens ( ) a 1, and of these and a string literal
ParenTokens == {<<"(">>, <<")">>, <<"a">>, <<"1">>}

PlainTokens == {<<"(">>, <<"a">>, <<"-", "1">>, <<"\"", "s", "\"">>}

\* every sequence of up to MaxToks tokens, separated by single spaces
ParenTexts == {JoinSpaced(ts) : ts \in SeqsUpTo(ParenTokens, MaxToks)}

\* whitespace and comments put before, between and after tokens
PadBefore == {<<>>, <<" ">>, <<"\n">>, <<";", "c", "\n">>}
PadAfter == PadBefore \cup {<<";", "c">>}

RECURSIVE JoinPadded(_, _)
JoinPadded(ts, mid) ==
    IF ts = <<>> THEN <<>>
    ELSE IF Len(ts) = 1 THEN ts[1]
    ELSE ts[1] \o <<" ">> \o mid \o JoinPadded(Tail(ts), mid)

Padded(ts, pre, mid, post) == pre \o JoinPadded(ts, mid) \o post

InitReader ==
    /\ kind = "bc" /\ forms = <<>> /\ stdin_text = <<>> /\ bytecode_text = <<>>
    /\ prog = <<>> /\ labels = EmptyDict /\ fun_entry = EmptyDict
    /\ fun_params = EmptyDict
    /\ stack = <<>> /\ frames = <<>> /\ callstack = <<>> /\ ip = 0
    /\ out_lines = <<>> /\ gensym_id = 0 /\ stdout = <<>>
    /\ pc = "reader" /\ err = "" /\ hist = <<>> /\ effects = <<>>
    /\ reader_pc = "lex"
    /\ \/ /\ reader_plain \in ParenTexts
          /\ reader_src = reader_plain
       \/ \E ts \in SeqsUpTo(PlainTokens, MaxPlain) :
           \E pre, mid \in PadBefore : \E post \in PadAfter :
              /\ reader_plain = JoinSpaced(ts)
              /\ reader_src = Padded(ts, pre, mid, post)
    /\ reader_toks = <<>>
    /\ reader_res = <<>>

\* toks = tokenize_sexpr(src)
Tokenize ==
    /\ reader_pc = "lex"
    /\ \E r \in {tokenize_sexpr(reader_src)} :
           IF r.ok
           THEN reader_toks' = r.v /\ reader_pc' = "parse"
           ELSE reader_pc' = "lex_error" /\ UNCHANGED reader_toks
    /\ UNCHANGED <<mainVars, reader_src, reader_plain, reader_res>>

\* forms = []; while peek()[0] != "EOF": forms.append(parse_one())
Parse ==
    /\ reader_pc = "parse"
    /\ \E r \in {parse_forms(reader_toks, 1, <<>>)} :
           /\ reader_res' = r
           /\ reader_pc' = IF r.ok THEN "done" ELSE "parse_error"
    /\ UNCHANGED <<mainVars, reader_src, reader_plain, reader_toks>>

NextReader == Tokenize \/ Parse

ReaderSpec == InitReader /\ [][NextReader]_vars

(***************************************************************************)
(* Properties.                                                             *)
(***************************************************************************)
\* the run loop is about to execute, or has executed, instructions
Loaded == pc \in {"run", "returned", "exit"}

\* the step taken from this state executes an instruction with opcode op
Executes(op) == Fetch(op)

\* the step taken from this state executes some instruction
ExecutesAny == pc = "run" /\ InBounds /\ ip < Len(prog)

C1_Step ==
    /\ (Executes("CALL") /\ pc' = "run") =>
          /\ Len(frames') = Len(frames) + 1
          /\ Len(callstack') = Len(callstack) + 1
    /\ (Executes("RET") /\ Len(frames) > 1) =>
          /\ Len(frames') = Len(frames) - 1
          /\ Len(callstack') = Len(callstack) - 1
    /\ (ExecutesAny /\ ~(Executes("CALL") /\ pc' = "run")
                    /\ ~(Executes("RET") /\ Len(frames) > 1)) =>
          /\ Len(frames') = Len(frames)
          /\ Len(callstack') = Len(callstack)

\* C1: whenever the run loop fetches an instruction, len(frames) is
\* 1 + len(callstack); a CALL that goes through adds one frame and one
\* return address, a RET with more than one frame removes one of each, and
\* no other instruction changes either length.
C1_FrameBalance ==
    /\ [](pc = "run" => Len(frames) = 1 + Len(callstack))
    /\ [][C1_Step]_vars

\* a call is active inside another call
C1_Witness == pc = "run" /\ Len(frames) = 3 /\ Len(callstack) = 2

C2_Step ==
    /\ frames # <<>> => frames' # <<>>
    /\ (Executes("RET") /\ Len(frames) = 1) =>
          /\ pc' # "run"
          /\ UNCHANGED <<frames, callstack, stack, ip>>
    /\ (Executes("RET") /\ Len(frames) > 1) =>
          /\ Len(frames') = Len(frames) - 1
          /\ frames'[1] = frames[1]
    /\ (frames # <<>> /\ ~(Executes("STORE") /\ Len(frames) = 1)) =>
          frames'[1] = frames[1]
    /\ pc \in {"returned", "exit", "error"} =>
          UNCHANGED <<stack, frames, callstack, ip, out_lines, gensym_id>>

\* C2: the frame stack is never empty and its bottom element stays the
\* global frame: RET with only the global frame ends the run, pops nothing
\* and no instruction executes after it; RET with more frames pops the top
\* frame and leaves the global frame in place.
C2_GlobalFrameKept ==
    /\ [](Loaded => Len(frames) >= 1)
    /\ [][C2_Step]_vars

\* the run has ended by a top-level RET that left values in the global
\* frame
C2_Witness ==
    /\ pc = "returned" /\ ip < Len(prog) /\ prog[ip + 1][1] = "RET"
    /\ Len(frames) = 1 /\ frames[1] # EmptyDict

C3_Step ==
    (Executes("RET") /\ Len(frames) > 1 /\ hist # <<>>) =>
        /\ ip' = Top(hist).ip + 1
        /\ frames' = Top(hist).frames
        /\ hist' = Pop(hist)

\* C3: calls and returns are properly nested: the RET that pops the frame
\* pushed by the CALL at index i sets ip to i + 1 and makes the frames what
\* they were when that CALL executed, at any depth of nesting or recursion.
\* (hist holds, per active call, the index of its CALL and the frames then.)
C3_NestedReturn ==
    /\ [](pc = "run" => Len(hist) = Len(callstack))
    /\ [][C3_Step]_vars

\* a recursive call has returned into its caller, itself a call, whose frame
\* holds the caller's bindings
C3_Witness ==
    /\ pc = "run" /\ Len(frames) >= 3 /\ ip >= 1 /\ ip < Len(prog)
    /\ prog[ip][1] = "CALL" /\ prog[ip + 1][1] # "LABEL"
    /\ prog[ip][2] \in DOMAIN fun_entry
    /\ fun_entry[prog[ip][2]] <= ip
    /\ frames[Len(frames)] # EmptyDict

\* the instruction about to execute has the form  OP name n  with n an
\* integer literal
HasArgc == Len(Inst) >= 3 /\ IsIntLit(Inst[3])

\* the k-th of the n values pushed last, counted in push order
Pushed(n, k) == stack[Len(stack) - n + k]

\* a CALL that goes through, with the parameter list it binds
CallGoesThrough == Executes("CALL") /\ pc' = "run"

C4_Prim ==
    (Executes("CALLPRIM") /\ pc' = "run") =>
        LET n == StrToInt(Inst[3])
            m == IF n < 0 THEN 0 ELSE n
            given == [k \in 1..m |-> Pushed(m, k)]
        IN  /\ Len(stack') = Len(stack) - m + 1
            /\ SubSeq(stack', 1, Len(stack) - m) = SubSeq(stack, 1, Len(stack) - m)
            /\ Top(stack') = prim_call(Inst[2], given).v

C4_StepPositional ==
    /\ CallGoesThrough =>
          LET n == StrToInt(Inst[3])
              params == fun_params[Inst[2]]
          IN  /\ DOMAIN Top(frames') = {params[k] : k \in 1..n}
              /\ \A k \in 1..n : Top(frames')[params[k]] = Pushed(n, k)
    /\ C4_Prim

C4_StepLastWins ==
    /\ CallGoesThrough =>
          LET n == StrToInt(Inst[3])
              params == fun_params[Inst[2]]
          IN  /\ DOMAIN Top(frames') = {params[k] : k \in 1..n}
              /\ \A k \in 1..n :
                    (\A j \in (k + 1)..n : params[j] # params[k]) =>
                        Top(frames')[params[k]] = Pushed(n, k)
              /\ stack' = SubSeq(stack, 1, Len(stack) - n)
    /\ C4_Prim

C5_Step ==
    (Executes("LOAD") /\ Len(Inst) >= 2) =>
        LET x == Inst[2]
            cur == frames[Len(frames)]
            glob == frames[1]
            v == IF x \in DOMAIN cur THEN cur[x]
                 ELSE IF x \in DOMAIN glob THEN glob[x]
                 ELSE VInt(0)
        IN  /\ stack' = Append(stack, v)
            /\ frames' = frames
            /\ pc' = "run"
            /\ ip' = ip + 1

\* C5: LOAD x pushes exactly one value, the binding of x in the top frame
\* if there is one, else its binding in the global frame if there is one,
\* else integer 0; frames of intermediate callers are not consulted, an
\* unbound name raises nothing and no frame changes.
C5_TwoLevelLookup == [][C5_Step]_vars

\* LOAD x has just pushed 0 in a call two levels deep while the caller's
\* frame binds x and neither the top frame nor the globals do
C5_Witness ==
    /\ pc = "run" /\ Len(frames) >= 3 /\ ip >= 1 /\ stack # <<>>
    /\ prog[ip][1] = "LOAD" /\ Len(prog[ip]) >= 2
    /\ prog[ip][2] \notin DOMAIN frames[Len(frames)]
    /\ prog[ip][2] \notin DOMAIN frames[1]
    /\ prog[ip][2] \in DOMAIN frames[Len(frames) - 1]
    /\ frames[Len(frames) - 1][prog[ip][2]] # VInt(0)
    /\ Top(stack) = VInt(0)

C6_Step ==
    (Executes("STORE") /\ Len(Inst) >= 2 /\ stack # <<>>) =>
        LET x == Inst[2]
            d == Len(frames)
        IN  /\ Len(frames') = d
            /\ \A i \in 1..(d - 1) : frames'[i] = frames[i]
            /\ DOMAIN frames'[d] = DOMAIN frames[d] \cup {x}
            /\ frames'[d][x] = Top(stack)
            /\ \A n \in DOMAIN frames[d] \ {x} : frames'[d][n] = frames[d][n]

\* the program  (let x 1) (define (f) (let x 2)) (f) (print x)  is past the
\* call of f
C6_AfterCall ==
    /\ forms = S_scope
    /\ \/ pc \in {"returned", "exit"}
       \/ pc = "run" /\ Len(frames) = 1 /\ ip >= 1 /\ prog[ip][1] = "CALL"

\* C6: STORE x changes only the binding of x in the top frame; with a user
\* call active the global frame and every other frame are unchanged, so the
\* program  (let x 1) (define (f) (let x 2)) (f) (print x)  has global x = 1
\* after the call returns and prints 1; at top level the top frame is the
\* global frame.
C6_StoreTopFrameOnly ==
    /\ [](C6_AfterCall => (N_x \in DOMAIN frames[1] /\ frames[1][N_x] = VInt(1)))
    /\ []((forms = S_scope /\ pc = "exit") => stdout = <<"1", "\n">>)
    /\ [][C6_Step]_vars

\* inside the call of f, STORE x has written 2 to the top frame while the
\* global x is 1
C6_Witness ==
    /\ forms = S_scope /\ pc = "run" /\ Len(frames) = 2 /\ ip >= 1
    /\ prog[ip][1] = "STORE"
    /\ N_x \in DOMAIN frames[2] /\ frames[2][N_x] = VInt(2)
    /\ N_x \in DOMAIN frames[1] /\ frames[1][N_x] = VInt(1)

\* the indices (1-based) of the DEFUN lines of the loaded program naming f
DefunsOf(f) ==
    {i \in 1..Len(prog) : prog[i][1] = "DEFUN" /\ Len(prog[i]) >= 2 /\ prog[i][2] = f}

\* the number of parameters declared for f (by its last DEFUN)
DeclaredParams(f) == Len(prog[Last(DefunsOf(f))]) - 2

C7_Step ==
    /\ (Executes("CALL") /\ HasArgc
          /\ \/ DefunsOf(Inst[2]) = {}
             \/ DeclaredParams(Inst[2]) # StrToInt(Inst[3])) =>
          /\ pc' = "error"
          /\ err' \in {"RuntimeError: CALL unknown function",
                       "RuntimeError: CALL arity mismatch"}
          /\ UNCHANGED <<stack, frames, callstack>>
    /\ pc = "error" => UNCHANGED vars

\* C7: a CALL f n whose f has no DEFUN in the loaded program, or whose n
\* differs from the number of parameters that DEFUN declares, aborts with a
\* RuntimeError; the operand stack, the frames and the return stack are
\* what they were before the CALL and nothing executes afterwards.
C7_BadCallAborts == [][C7_Step]_vars

\* an arity mismatch has aborted the run with both arguments still on the
\* operand stack
C7_Witness ==
    /\ pc = "error" /\ err = "RuntimeError: CALL arity mismatch"
    /\ Len(stack) = 2 /\ Len(frames) = 1 /\ callstack = <<>>

\* the compiler has emitted a program for the source forms
Compiled == kind = "tl" /\ pc \in {"load", "run", "returned", "exit"}

\* the compiled program is loaded
CompiledLoaded == kind = "tl" /\ pc \in {"run", "returned", "exit"}

\* the 0-based instruction index i lies between a DEFUN (included) and
\* LABEL __START__
InFunctionBody(i) ==
    /\ START \in DOMAIN labels /\ i < labels[START]
    /\ \E d \in IndicesOf(prog, "DEFUN") : d <= i

\* C8: a program emitted by compile_program starts with JMP __START__, and
\* while the VM runs it with only the global frame no instruction lying
\* between a DEFUN and LABEL __START__ is executed: the instructions of a
\* function body run only between a CALL and its matching RET.
C8_BodiesOnlyInCalls ==
    /\ Compiled => bytecode_text[1] = <<"JMP", START>>
    /\ (CompiledLoaded /\ pc = "run" /\ ip < Len(prog) /\ InFunctionBody(ip)) =>
           (Len(frames) >= 2 /\ Len(callstack) >= 1)

\* a compiled program is executing an instruction of a function body inside
\* a call
C8_Witness ==
    /\ CompiledLoaded /\ pc = "run" /\ ip < Len(prog)
    /\ InFunctionBody(ip) /\ Inst[1] \notin {"DEFUN", "RET"}
    /\ Len(frames) = 2

\* 1-based positions of the lines of the emitted program with opcode op
LinesOf(op) == {i \in 1..Len(bytecode_text) : bytecode_text[i][1] = op}

\* C9: the bytecode emitted by one compilation has no two LABEL lines with
\* the same name, and the operand of every JMP and JZ is the name of a LABEL
\* line of that bytecode, for if and while nested in function bodies and at
\* top level.
C9_LabelsUniqueAndPresent ==
    Compiled =>
        /\ \A i, j \in LinesOf("LABEL") :
              bytecode_text[i][2] = bytecode_text[j][2] => i = j
        /\ \A i \in LinesOf("JMP") \cup LinesOf("JZ") :
              \E j \in LinesOf("LABEL") : bytecode_text[j][2] = bytecode_text[i][2]

\* a compilation has emitted the labels of an if in a function body and of
\* nested if and while forms at top level
C9_Witness ==
    /\ Compiled
    /\ Cardinality(LinesOf("LABEL")) >= 9
    /\ \E i, j \in LinesOf("LABEL") : i < j /\ bytecode_text[j][2] = START
    /\ LinesOf("JZ") # {} /\ LinesOf("JMP") # {}

\* the names called by the CALL lines of the loaded program
CallTargets == {prog[i + 1][2] : i \in {k \in IndicesOf(prog, "CALL") : Len(prog[k + 1]) >= 2}}

\* the names of the functions the source defines at top level
DefinedInSource ==
    {forms[i].l[2].l[1].s :
        i \in {k \in 1..Len(forms) : IsDefine(forms[k])}}

\* C10 as stated, for the programs the compiler emits: every CALL target of
\* the program handed to the VM is in the function table built at load
\* time, the compilation having emitted a DEFUN for it.
C10_CallTargetsInTable ==
    CompiledLoaded => CallTargets \subseteq DOMAIN fun_entry

\* the names declared by the DEFUN lines of the loaded program
DefunNames == {prog[i + 1][2] : i \in IndicesOf(prog, "DEFUN")}

C10_Step ==
    /\ CallGoesThrough =>
          /\ Inst[2] \in DOMAIN fun_entry
          /\ ip' = Last(DefunsOf(Inst[2]))
    /\ (Executes("CALL") /\ HasArgc /\ Inst[2] \notin DOMAIN fun_entry) =>
          /\ pc' = "error"
          /\ err' = "RuntimeError: CALL unknown function"

\* C10: the function table built at load time holds exactly the names of
\* the DEFUN lines of the program, which for a compiled program are the
\* names the source defines at top level; a CALL target need not be among
\* them (any other symbol in operator position compiles to a CALL with no
\* DEFUN), a CALL f n whose target is not in the table aborts with a
\* RuntimeError when it executes, and every CALL that goes through names a
\* function of the table and enters the body after its DEFUN.
C10_CallsEnterDefinedFunctions ==
    /\ [](Loaded => DOMAIN fun_entry = DefunNames)
    /\ [](CompiledLoaded => DefunNames = DefinedInSource)
    /\ [][C10_Step]_vars

\* a compiled program calls a function that is in the table and one that is
\* not, and the second call has aborted the run
C10_Witness ==
    /\ kind = "tl" /\ pc = "error" /\ err = "RuntimeError: CALL unknown function"
    /\ CallTargets \cap DOMAIN fun_entry # {}
    /\ CallTargets \ DOMAIN fun_entry # {}

\* the lines of the emitted program that open a block: the DEFUN lines and
\* LABEL __START__
BlockStarts == LinesOf("DEFUN") \cup {i \in LinesOf("LABEL") : bytecode_text[i][2] = START}

\* the line that ends the block of the DEFUN at line d: the line before the
\* next DEFUN or LABEL __START__ (0 when nothing follows)
BlockEnd(d) ==
    IF \E j \in BlockStarts : j > d
    THEN (CHOOSE j \in BlockStarts : j > d /\ \A k \in BlockStarts : k > d => j <= k) - 1
    ELSE 0

\* the DEFUN line of the function whose call is the innermost active one
CurrentDefun == fun_entry[prog[Top(hist).ip + 1][2]]

C11_Static ==
    \A d \in LinesOf("DEFUN") :
        /\ BlockEnd(d) > d
        /\ bytecode_text[BlockEnd(d)] = <<"RET">>
        /\ \A j \in (d + 1)..(BlockEnd(d) - 1) :
              /\ bytecode_text[j][1] # "RET"
              /\ bytecode_text[j][1] \in {"JMP", "JZ"} =>
                    \E l \in (d + 1)..(BlockEnd(d) - 1) :
                        bytecode_text[l] = <<"LABEL", bytecode_text[j][2]>>

C11_Step ==
    (CompiledLoaded /\ ExecutesAny /\ Len(frames) >= 2 /\ pc' = "run"
        /\ Inst[1] \notin {"RET", "CALL"}) =>
        /\ Len(frames') = Len(frames) /\ callstack' = callstack
        /\ ip' + 1 > CurrentDefun /\ ip' + 1 <= BlockEnd(CurrentDefun)

\* C11: in emitted bytecode every DEFUN is followed by its body and a RET
\* that is the last line before the next DEFUN or LABEL __START__, and every
\* JMP/JZ of a body names a label of that body; so while a call is active
\* the instruction pointer stays between the DEFUN of the called function
\* and its RET, and a step that is neither that RET nor a CALL keeps it
\* there: no body falls through into another body or into top-level code.
C11_BodiesEndInRet ==
    /\ [](Compiled => C11_Static)
    /\ [](CompiledLoaded => prog = bytecode_text)
    /\ []((CompiledLoaded /\ pc = "run" /\ Len(frames) >= 2) =>
             (ip + 1 > CurrentDefun /\ ip + 1 <= BlockEnd(CurrentDefun)))
    /\ [][C11_Step]_vars

\* inside a call, a JZ of the function's body has jumped over a JMP to a
\* label of the same body
C11_Witness ==
    /\ CompiledLoaded /\ pc = "run" /\ Len(frames) >= 2 /\ ip >= 1 /\ ip < Len(prog)
    /\ Inst[1] = "LABEL" /\ prog[ip][1] = "JMP"
    /\ ip + 1 < BlockEnd(CurrentDefun)

IsPrintEffect(e) == e.k = "PRINT"

IsEmitEffect(e) == e.k = "emit"

\* the text of the PRINT effects, and the values of the emit effects, in
\* execution order
Printed == SelectSeq(effects, IsPrintEffect)
Emitted == SelectSeq(effects, IsEmitEffect)

\* the lines of a sequence of effects, each closed by a newline
RECURSIVE LinesText(_)
LinesText(es) ==
    IF es = <<>> THEN <<>> ELSE es[1].v.s \o <<"\n">> \o LinesText(Tail(es))

\* what reaches stdout of the buffered lines: the lines joined by newlines,
\* closed by a newline unless that text is empty or ends with one
FlushText(es) ==
    LET all == LinesText(es)
        joined == SubSeq(all, 1, Len(all) - 1)
    IN  IF joined = <<>> \/ joined[Len(joined)] = "\n" THEN joined ELSE all

\* C12 as stated: when the process has ended, stdout holds the lines of the
\* PRINT and emit effects in the order in which they were executed.
C12_InExecutionOrder ==
    pc = "exit" =>
        stdout = LinesText(SelectSeq(effects, LAMBDA e : e.k \in {"PRINT", "emit"}))

C12_Step ==
    /\ (Executes("PRINT") /\ pc' = "run") =>
          /\ stdout' = stdout \o Printed'[Len(Printed')].v.s \o <<"\n">>
          /\ out_lines' = out_lines
    /\ (Executes("CALLPRIM") /\ pc' = "run" /\ Inst[2] = N_emit) =>
          /\ stdout' = stdout
          /\ out_lines' = Append(out_lines, Top(stack))

\* C12: a PRINT line is written to stdout when PRINT executes and an emitted
\* line is buffered until run returns, so stdout holds the PRINT lines in
\* execution order followed by the emitted lines in execution order (joined
\* by newlines and closed by one): order is kept within each kind, and every
\* PRINT line precedes every emitted line whatever the order of execution.
C12_OrderWithinChannel ==
    /\ [](pc \in {"run", "returned", "error"} => stdout = LinesText(Printed))
    /\ [](pc = "exit" => stdout = LinesText(Printed) \o FlushText(Emitted))
    /\ [](out_lines = [i \in 1..Len(Emitted) |-> Emitted[i].v])
    /\ [][C12_Step]_vars

\* the process has ended after emit, PRINT, emit, PRINT executed in that
\* order
C12_Witness ==
    /\ pc = "exit" /\ Len(effects) = 4
    /\ effects[1].k = "emit" /\ effects[2].k = "PRINT"
    /\ effects[3].k = "emit" /\ effects[4].k = "PRINT"
    /\ effects[1].v # effects[3].v /\ effects[2].v # effects[4].v

\* C13 as stated: whenever the run has ended, by top-level RET, by running
\* past the last instruction or by an abort, every line appended by an
\* executed emit is on stdout exactly once, in emission order, after the
\* PRINT lines written before.
C13_FlushedAtTermination ==
    (pc \in {"exit", "error"} /\ \A i \in 1..Len(Emitted) : Emitted[i].v.t = "str") =>
        stdout = LinesText(Printed) \o FlushText(Emitted)

\* the instructions compile_form emits for the form x on a fresh compiler
CodeOf(x) == compile_form(C_init, x)

\* C14 as stated: (begin e) compiles to the instructions of e for every form
\* e, and (begin) leaves the value 0 as its result, so that the program
\* (print (begin)) prints 0 and ends normally.
C14_BeginIsValue ==
    /\ pc = "compile" =>
          \A e \in Pool : CodeOf(VList(<<Sym(N_begin), e>>)) = CodeOf(e)
    /\ (forms = S_print_begin /\ pc \in {"exit", "error"}) =>
          (pc = "exit" /\ stdout = <<"0", "\n">>)

\* the instruction about to execute applies the primitive p to one
\* argument, the empty list on top of the stack
AppliesToNil(p) ==
    /\ Executes("CALLPRIM") /\ HasArgc
    /\ Inst[2] = p /\ StrToInt(Inst[3]) = 1
    /\ stack # <<>> /\ Top(stack) = VList(<<>>)

C15_Step ==
    (AppliesToNil(N_car) \/ AppliesToNil(N_cdr)) =>
        /\ pc' = "error"
        /\ stack' = Pop(stack)
        /\ ip' = ip

\* C15 as stated: car or cdr applied to the empty list aborts the run with
\* an error; no result is pushed and no later instruction executes.
C15_CarCdrOfNilAbort == [][C15_Step]_vars

RECURSIVE Factorial(_)
Factorial(n) == IF n = 0 THEN 1 ELSE n * Factorial(n - 1)

\* the source is the factorial program for some argument, and which one
IsFactProgram == kind = "tl" /\ forms \in FactPrograms
FactArg == CHOOSE k \in 0..MaxFact : forms = fact_program(k)

\* the one line the factorial program prints
FactLine == NatToStr(Factorial(FactArg)) \o <<"\n">>

\* C16: for every n in 0..MaxFact the compiled program
\* (define (fact n) (if (== n 0) 1 (* n (fact (- n 1))))) (print (fact n))
\* never aborts, never has more than n + 2 frames, prints nothing but the
\* one line n!, and when it has ended it has printed that line and stopped
\* at the top-level RET with only the global frame and an empty return
\* stack.
C16_Factorial ==
    IsFactProgram =>
        /\ pc # "error"
        /\ Len(frames) <= FactArg + 2
        /\ stdout \in {<<>>, FactLine}
        /\ pc \in {"returned", "exit"} =>
              /\ stdout = FactLine
              /\ Len(frames) = 1 /\ callstack = <<>>
              /\ ip = Len(prog) - 1 /\ Inst = <<"RET">>

\* (print (fact 5)) has printed 120 and ended
C16_Witness ==
    /\ IsFactProgram /\ FactArg = 5 /\ pc = "exit"
    /\ stdout = <<"1", "2", "0", "\n">>

\* the source is the counting loop for some bound, and which one
IsCountProgram == kind = "tl" /\ forms \in CountPrograms
CountArg == CHOOSE k \in 0..MaxCount : forms = count_program(k)

\* the lines 0, 1, .., k - 1
RECURSIVE CountText(_)
CountText(k) ==
    IF k = 0 THEN <<>> ELSE CountText(k - 1) \o NatToStr(k - 1) \o <<"\n">>

\* the global variables of the counting loop
GlobalX == frames[1][N_x].n
GlobalY == frames[1][N_y].n

C17_Step ==
    IsCountProgram =>
        /\ Executes("PRINT") =>
              /\ GlobalY < GlobalX
              /\ Top(stack) = VInt(GlobalY)
              /\ Len(Printed) = GlobalY
        /\ Executes("JZ") =>
              /\ Len(Printed) = GlobalY
              /\ ip' = labels[Inst[2]] <=> ~(GlobalY < GlobalX)
              /\ ip' = ip + 1 <=> GlobalY < GlobalX

\* C17: for every x in 0..MaxCount the compiled program
\* (let x X) (let y 0) (while (< y x) (begin (print y) (let y (+ y 1))))
\* never aborts and prints 0, 1, .., x - 1 in ascending order, each once
\* (nothing when x = 0), all of them by the time it ends; the condition is
\* evaluated before every iteration (JZ runs with y equal to the number of
\* lines printed) and the body runs only while y < x.
C17_CountingLoop ==
    /\ [](IsCountProgram =>
             /\ pc # "error"
             /\ Len(Printed) <= CountArg
             /\ stdout = CountText(Len(Printed))
             /\ pc \in {"returned", "exit"} => stdout = CountText(CountArg))
    /\ [][C17_Step]_vars

\* the loop with x = MaxCount has ended with all its lines printed
C17_Witness ==
    /\ IsCountProgram /\ CountArg = MaxCount /\ pc = "exit"
    /\ Len(Printed) = MaxCount /\ GlobalY = MaxCount

\* the top-level define forms of the source, and the other forms, each in
\* source order
DefineForms == SelectSeq(forms, IsDefine)
RestForms == SelectSeq(forms, IsNotDefine)

\* the DEFUN line of a define form: DEFUN fname p1 .. pn
DefunLine(d) == <<"DEFUN">> \o [i \in 1..Len(d.l[2].l) |-> d.l[2].l[i].s]

IsDefunLine(line) == line[1] = "DEFUN"

\* the line LABEL __START__ of the emitted program
StartLine == CHOOSE i \in 1..Len(bytecode_text) : bytecode_text[i] = <<"LABEL", START>>

\* the forms fs compiled one after the other by one compiler object, a
\* define by compile_define and any other form by compile_form
RECURSIVE EmitInOrder(_, _)
EmitInOrder(c, fs) ==
    IF fs = <<>> THEN c
    ELSE EmitInOrder(IF IsDefine(fs[1]) THEN compile_define(c, fs[1])
                     ELSE compile_form(c, fs[1]), Tail(fs))

\* the program laid out as: JMP __START__, the define blocks, LABEL
\* __START__, the other forms, PUSH 0, RET
LaidOut ==
    LET blocks == EmitInOrder(emit(C_init, <<"JMP", START>>), DefineForms)
        top == EmitInOrder(emit(blocks, <<"LABEL", START>>), RestForms)
    IN  top.bc \o <<<<"PUSH", <<"0">>>>, <<"RET">>>>

\* C18: compile_program emits JMP __START__, then the DEFUN block of every
\* top-level define in source order, then LABEL __START__, then the code of
\* every other top-level form in source order, then PUSH 0 and RET; the
\* output is the same when the defines are moved in front of the other
\* forms, so a top-level form may call a function defined after it.
C18_ProgramLayout ==
    Compiled =>
        /\ bytecode_text = LaidOut
        /\ bytecode_text[1] = <<"JMP", START>>
        /\ Cardinality({i \in 1..Len(bytecode_text) :
                            bytecode_text[i] = <<"LABEL", START>>}) = 1
        /\ \A i \in LinesOf("DEFUN") : i < StartLine
        /\ SelectSeq(bytecode_text, IsDefunLine) =
              [i \in 1..Len(DefineForms) |-> DefunLine(DefineForms[i])]
        /\ StartLine > 2 <=> DefineForms # <<>>
        /\ SubSeq(bytecode_text, Len(bytecode_text) - 1, Len(bytecode_text)) =
              <<<<"PUSH", <<"0">>>>, <<"RET">>>>
        /\ bytecode_text = compile_program(DefineForms \o RestForms).bc

\* a source whose first form calls a function defined by its second form
\* has been compiled with the DEFUN block first, and has run to the end
C18_Witness ==
    /\ kind = "tl" /\ pc = "exit" /\ Len(forms) = 2
    /\ IsNotDefine(forms[1]) /\ IsDefine(forms[2])
    /\ bytecode_text[2] = DefunLine(forms[2])
    /\ \E i \in LinesOf("CALL") : i > StartLine /\ bytecode_text[i][2] = forms[2].l[2].l[1].s
    /\ stdout # <<>>

(***************************************************************************)
(* C19: the gensym primitive.                                              *)
(***************************************************************************)
IsGensymEffect(e) == e.k = "gensym"

\* the gensym calls of the run so far: prefix passed and string returned
Gensyms == SelectSeq(effects, IsGensymEffect)

EndsInDigit(s) == s # <<>> /\ s[Len(s)] \in {Digits[d] : d \in 1..10}

\* C19 as stated: the string returned by a gensym call differs from the
\* string returned by every earlier gensym call of the run, whatever the
\* prefixes.
C19_AlwaysFresh ==
    \A i, j \in 1..Len(Gensyms) : i < j => Gensyms[i].v # Gensyms[j].v

C19_Step ==
    /\ gensym_id' >= gensym_id
    /\ gensym_id' # gensym_id =>
           /\ Executes("CALLPRIM") /\ Inst[2] = N_gensym
           /\ gensym_id' = gensym_id + 1
           /\ Len(Gensyms') = Len(Gensyms) + 1
    /\ (Executes("CALLPRIM") /\ Inst[2] = N_gensym /\ pc' = "run") =>
           gensym_id' = gensym_id + 1

\* C19: the counter starts at 0 and grows by one with every gensym call and
\* at no other step; the k-th call returns its prefix followed by the
\* decimal digits of k; so a call's result differs from the result of every
\* earlier call that had the same prefix or a prefix not ending in a digit.
C19_GensymFresh ==
    /\ (pc \in {"compile", "load"} => gensym_id = 0)
    /\ [](gensym_id = Len(Gensyms))
    /\ [](\A k \in 1..Len(Gensyms) :
              Gensyms[k].v = VStr(PyStr(Gensyms[k].p) \o NatToStr(k)))
    /\ [](\A i, j \in 1..Len(Gensyms) :
              (/\ i < j
               /\ \/ Gensyms[i].p = Gensyms[j].p
                  \/ ~EndsInDigit(PyStr(Gensyms[i].p))) =>
                  Gensyms[i].v # Gensyms[j].v)
    /\ [][C19_Step]_vars

\* eleven calls have been made; the first, with prefix "L1", and the
\* eleventh, with prefix "L", returned the same name, and the calls between
\* them returned other names
C19_Witness ==
    /\ pc = "exit"
    /\ Len(Gensyms) = 11
    /\ Gensyms[1].p # Gensyms[11].p
    /\ Gensyms[1].v = Gensyms[11].v
    /\ \A k \in 2..10 : Gensyms[k].v # Gensyms[11].v

(***************************************************************************)
(* C20: JZ and the code compiled for (if c t e).                           *)
(***************************************************************************)
\* the compilation of x by a compiler that has handed out k labels
CodeFrom(k, x) == compile_form([C_init EXCEPT !.label_id = k], x)

\* the if forms of the source programs
IfForms == {T_if, T_nest, T_nest.l[4], D_rec.l[3], S_fact[1].l[3]}

\* the code of (if c t e) is: code of c, JZ ELSE_n, code of t, JMP END_n,
\* LABEL ELSE_n, code of e, LABEL END_n
IfLayout(k, x) ==
    LET l_else == P_ELSE \o IntToStr(k + 1)
        l_end == P_END \o IntToStr(k + 2)
        cc == CodeFrom(k + 2, x.l[2])
        ct == CodeFrom(cc.label_id, x.l[3])
        ce == CodeFrom(ct.label_id, x.l[4])
    IN  CodeFrom(k, x).bc =
            cc.bc \o <<<<"JZ", l_else>>>> \o ct.bc
                  \o <<<<"JMP", l_end>>, <<"LABEL", l_else>>>> \o ce.bc
                  \o <<<<"LABEL", l_end>>>>

IsElseLabel(name) ==
    Len(name) > Len(P_ELSE) /\ SubSeq(name, 1, Len(P_ELSE)) = P_ELSE

\* the 0-based indices of the JZ instructions compiled for if forms
IfSites ==
    {j \in 0..(Len(prog) - 1) :
        /\ Len(prog[j + 1]) = 2
        /\ prog[j + 1][1] = "JZ"
        /\ IsElseLabel(prog[j + 1][2])}

\* the index of LABEL ELSE_n and of LABEL END_n of the if whose JZ is at j
ElseAt(j) == labels[prog[j + 1][2]]
EndAt(j) == labels[prog[ElseAt(j)][2]]

\* the code of t with the JMP END_n that closes it, and LABEL ELSE_n with
\* the code of e
ThenCode(j) == (j + 1)..(ElseAt(j) - 1)
ElseCode(j) == ElseAt(j)..(EndAt(j) - 1)

C20_Static ==
    \A j \in IfSites :
        /\ prog[j + 1][2] \in DOMAIN labels
        /\ j + 1 < ElseAt(j)
        /\ prog[ElseAt(j)][1] = "JMP"
        /\ prog[ElseAt(j)][2] \in DOMAIN labels
        /\ prog[ElseAt(j) + 1] = <<"LABEL", prog[j + 1][2]>>
        /\ ElseAt(j) < EndAt(j)
        /\ prog[EndAt(j) + 1] = <<"LABEL", prog[ElseAt(j)][2]>>

C20_Branch(j) ==
    /\ ip = j => ip' = IF Top(stack) = VInt(0) THEN ElseAt(j) ELSE j + 1
    /\ (ip \notin ThenCode(j) /\ ip' \in ThenCode(j)
          /\ Len(callstack') = Len(callstack)) =>
           ip = j /\ Top(stack) # VInt(0)
    /\ (ip \notin ElseCode(j) /\ ip' \in ElseCode(j)
          /\ Len(callstack') = Len(callstack)) =>
           ip = j /\ Top(stack) = VInt(0)
    /\ (ip \in ThenCode(j) /\ Len(callstack') = Len(callstack)) =>
           ip' \in ThenCode(j) \cup {EndAt(j)}
    /\ (ip \in ThenCode(j) /\ Len(callstack') > Len(callstack)) =>
           Top(callstack') \in ThenCode(j)
    /\ (ip \in ElseCode(j) /\ Len(callstack') = Len(callstack)) =>
           ip' \in ElseCode(j) \cup {EndAt(j)}
    /\ (ip \in ElseCode(j) /\ Len(callstack') > Len(callstack)) =>
           Top(callstack') \in ElseCode(j) \cup {EndAt(j)}

C20_Step ==
    /\ (Executes("JZ") /\ stack # <<>>) =>
           /\ stack' = Pop(stack)
           /\ Top(stack) # VInt(0) => pc' = "run" /\ ip' = ip + 1
           /\ (Top(stack) = VInt(0) /\ pc' = "run") => ip' = labels[Inst[2]]
    /\ (CompiledLoaded /\ pc = "run" /\ pc' = "run") =>
           \A j \in IfSites : C20_Branch(j)

\* C20: a JZ that finds a value on the stack pops exactly that one value,
\* and goes to its label when the value is the integer 0 and to the next
\* instruction otherwise.  The code of (if c t e) is laid out as code of c,
\* JZ ELSE_n, code of t, JMP END_n, LABEL ELSE_n, code of e, LABEL END_n; an
\* activation enters the code of t only from the JZ with a non-zero value and
\* the code of e only from the JZ with the value 0, and it leaves either of
\* them only to LABEL END_n (steps inside called functions aside).
C20_IfSelectsBranch ==
    /\ [](pc = "compile" => \A x \in IfForms : \A k \in 0..2 : IfLayout(k, x))
    /\ [](CompiledLoaded => C20_Static)
    /\ [][C20_Step]_vars

\* inside the recursion of fact the innermost activation has just entered
\* the code of t (its condition was non-zero) while the activation that
\* called it waits inside the code of e (its condition was 0)
C20_Witness ==
    /\ CompiledLoaded /\ pc = "run"
    /\ callstack # <<>>
    /\ \E j \in IfSites :
           /\ ip = j + 1
           /\ Top(callstack) \in ElseCode(j) \cup {EndAt(j)}
           /\ ip \in ThenCode(j)

(***************************************************************************)
(* C21: DEFUN at run time.                                                 *)
(***************************************************************************)
\* the 0-based indices of the body of the DEFUN at index d: the
\* instructions after it, up to the first RET (included) or the next DEFUN
BodyOf(d) ==
    {i \in (d + 1)..(Len(prog) - 1) :
        \A k \in (d + 1)..(i - 1) : prog[k + 1][1] \notin {"RET", "DEFUN"}}

\* a call of the function declared by the DEFUN at index d is active
CallActive(d) ==
    \E h \in 1..Len(hist) : prog[hist[h].ip + 1][2] = prog[d + 1][2]

\* C21 as stated: in every loaded bytecode program an instruction of a
\* function's body is executed only while a call of that function is active.
C21_BodiesOnlyWhenCalled ==
    (Loaded /\ ExecutesAny) =>
        \A d \in IndicesOf(prog, "DEFUN") : ip \in BodyOf(d) => CallActive(d)

C21_Step ==
    Executes("DEFUN") =>
        /\ ip' = ip + 1
        /\ UNCHANGED <<inVars, progVars, stack, frames, callstack, out_lines,
                       gensym_id, stdout, pc, err>>

\* C21: DEFUN changes nothing but ip, which it advances by one, so that a
\* program whose control reaches a DEFUN goes on into the body without any
\* call; in a program emitted by the compiler an instruction of a function's
\* body is executed only while a call of that function is active.
C21_DefunIsNoOp ==
    /\ [][C21_Step]_vars
    /\ [](CompiledLoaded /\ ExecutesAny =>
             \A d \in IndicesOf(prog, "DEFUN") :
                 ip \in BodyOf(d) => CallActive(d))

\* a DEFUN has just been executed with no call active, and the next
\* instruction to execute is the first one of its body
C21_Witness ==
    /\ Loaded /\ ExecutesAny
    /\ hist = <<>> /\ callstack = <<>>
    /\ ip > 0 /\ prog[ip][1] = "DEFUN"
    /\ ip \in BodyOf(ip - 1)
    /\ Inst[1] # "DEFUN"

(***************************************************************************)
(* C22: primitive calls and user calls.                                    *)
(***************************************************************************)
SpecialForms == {N_begin, N_if, N_let, N_set, N_while, N_print} \cup ArithOps

\* call forms (f a1 .. an), n <= 2, with primitive and other operators
CallOperators == prim_set \cup {N_f, N_g, N_fact, N_define}

CallForms ==
    {VList(<<Sym(f)>> \o as) :
        f \in CallOperators, as \in SeqsUpTo({VInt(1), Sym(N_x)}, 2)}

\* the instruction that ends the code of the call form x
LastLine(x) == CodeOf(x).bc[Len(CodeOf(x).bc)]

C22_CallLayout(x) ==
    LET f == x.l[1].s
        n == Len(x.l) - 1
    IN  /\ CodeOf(x).err = ""
        /\ CodeOf(x).bc = compile_forms(C_init, Tail(x.l)).bc \o <<LastLine(x)>>
        /\ f \in prim_set => LastLine(x) = <<"CALLPRIM", f, IntToStr(n)>>
        /\ f \notin prim_set => LastLine(x) = <<"CALL", f, IntToStr(n)>>

\* C22: a call form whose operator is not a special form compiles to the
\* code of its arguments followed by CALLPRIM f n when f is in the
\* compiler's primitive set and by CALL f n otherwise; that set is the key
\* set of the VM's primitive table; every CALLPRIM line of a compiled
\* program names a key of the table, and no compiled program aborts with
\* "Unknown primitive".
C22_PrimitiveDispatch ==
    /\ prim_set = PRIMS
    /\ CallOperators \cap SpecialForms = {}
    /\ pc = "compile" => \A x \in CallForms : C22_CallLayout(x)
    /\ Compiled =>
           \A i \in LinesOf("CALLPRIM") :
               /\ bytecode_text[i][2] \in PRIMS
               /\ bytecode_text[i][2] \in prim_set
    /\ Compiled =>
           \A i \in LinesOf("CALL") : bytecode_text[i][2] \notin prim_set
    /\ kind = "tl" => err # "RuntimeError: Unknown primitive"

\* a compiled program has run to its end through a CALLPRIM, whose effect
\* is recorded, and a CALL of a user function
C22_Witness ==
    /\ kind = "tl" /\ pc = "exit"
    /\ LinesOf("CALLPRIM") # {} /\ LinesOf("CALL") # {}
    /\ Emitted # <<>>

(***************************************************************************)
(* C23: parse_sexprs on a token sequence.                                  *)
(***************************************************************************)
\* LP tokens minus RP tokens among the first n tokens
Depth(n) ==
    Cardinality({i \in 1..n : reader_toks[i].k = "LP"})
        - Cardinality({i \in 1..n : reader_toks[i].k = "RP"})

\* some prefix has more RP than LP
ClosesTooMuch == \E n \in 1..(Len(reader_toks) - 1) : Depth(n) < 0

Balanced == ~ClosesTooMuch /\ Depth(Len(reader_toks) - 1) = 0

\* the tokens a value is written with, parentheses around the elements of a
\* list
RECURSIVE TokensOf(_), TokensOfAll(_)
TokensOf(v) ==
    CASE v.t = "int" -> <<Tok("INT", v)>>
      [] v.t = "str" -> <<Tok("STR", v)>>
      [] v.t = "sym" -> <<Tok("SYM", VStr(v.s))>>
      [] v.t = "list" ->
           <<Tok("LP", VStr(<<"(">>))>> \o TokensOfAll(v.l)
               \o <<Tok("RP", VStr(<<")">>))>>

TokensOfAll(vs) ==
    IF vs = <<>> THEN <<>> ELSE TokensOf(vs[1]) \o TokensOfAll(Tail(vs))

\* C23: on a token sequence that ends in EOF the parsing loop returns a list
\* of forms exactly when the parentheses are balanced; otherwise it raises
\* SyntaxError, for the first RP at term position when some prefix has more
\* RP than LP, and "Unclosed '('" when an LP is still open at EOF; on
\* success every token before EOF has been consumed, and writing the
\* returned forms out again gives those tokens in the same order and
\* nesting.
C23_ParseBalanced ==
    reader_pc \in {"done", "parse_error"} =>
        /\ reader_toks[Len(reader_toks)].k = "EOF"
        /\ reader_pc = "done" <=> Balanced
        /\ reader_pc = "parse_error" =>
               reader_res.e = IF ClosesTooMuch THEN "SyntaxError: Bad token"
                              ELSE "SyntaxError: Unclosed '('"
        /\ reader_pc = "done" =>
               /\ reader_res.k = Len(reader_toks)
               /\ TokensOfAll(reader_res.v.l) =
                      SubSeq(reader_toks, 1, Len(reader_toks) - 1)

\* a list nested in a list, with an atom after it, has been parsed
C23_Witness ==
    /\ reader_pc = "done"
    /\ \E i \in 1..Len(reader_res.v.l) :
           /\ reader_res.v.l[i].t = "list"
           /\ Len(reader_res.v.l[i].l) = 2
           /\ reader_res.v.l[i].l[1].t = "list"
           /\ reader_res.v.l[i].l[2].t \in {"int", "sym"}

(***************************************************************************)
(* C24: whitespace and comments in the lexer.                              *)
(***************************************************************************)
\* C24 as stated: whitespace or a comment added before the first token,
\* between tokens or after the last token raises no error, and the tokens
\* are those of the text without the additions.
C24_PaddingIgnored ==
    (reader_plain # <<>> /\ reader_pc \in {"lex_error", "parse", "parse_error", "done"}) =>
        /\ reader_pc # "lex_error"
        /\ reader_toks = tokenize_sexpr(reader_plain).v

(***************************************************************************)
(* C25: the type predicates.                                               *)
(***************************************************************************)
TypePreds == {N_intp, N_strp, N_symp, N_pairp, N_nullp}

\* the one predicate a value is expected to satisfy
ClassOf(v) ==
    CASE v.t = "int" -> N_intp
      [] v.t = "str" -> N_strp
      [] v.t = "sym" -> N_symp
      [] v.t = "list" /\ v.l = <<>> -> N_nullp
      [] v.t = "list" /\ v.l # <<>> -> N_pairp

\* the values the VM holds: on the operand stack and in the frames
HeldValues ==
    {stack[i] : i \in 1..Len(stack)}
        \cup UNION {{frames[i][n] : n \in DOMAIN frames[i]} : i \in 1..Len(frames)}

C25_Partition(v) ==
    /\ \A p \in TypePreds : prim_call(p, <<v>>) \in {Ok(VInt(0)), Ok(VInt(1))}
    /\ \A p \in TypePreds : prim_call(p, <<v>>) = Ok(VInt(1)) <=> p = ClassOf(v)
    /\ Cardinality({p \in TypePreds : prim_call(p, <<v>>) = Ok(VInt(1))}) = 1

C25_Step ==
    (Executes("CALLPRIM") /\ Len(Inst) = 3 /\ Inst[2] \in TypePreds
        /\ Inst[3] = <<"1">> /\ stack # <<>>) =>
        /\ pc' = "run"
        /\ stack' = Append(Pop(stack),
                           VInt(IF Inst[2] = ClassOf(Top(stack)) THEN 1 ELSE 0))

\* C25: for every value the VM holds exactly one of int?, str?, sym?, pair?,
\* null? returns 1 and the other four return 0: int? for an integer (0
\* included), str? for a string, sym? for a symbol, null? for the empty list
\* and pair? for a non-empty list; a CALLPRIM of a predicate replaces the
\* value on top of the stack by that 1 or 0.
C25_TypePredicates ==
    /\ [](\A v \in HeldValues : C25_Partition(v))
    /\ [][C25_Step]_vars

\* the five predicates have been applied to the empty list: only null?
\* returned 1
C25_Witness ==
    /\ bytecode_text = R_types /\ pc = "exit"
    /\ stdout = <<"0", "\n", "0", "\n", "0", "\n", "0", "\n", "1", "\n">>

(***************************************************************************)
(* C26: the values left by statements.                                     *)
(***************************************************************************)
\* programs with one while loop, at top level, whose body contains a print
\* and adds 1 to the global y, which is 0 when the loop is entered
IsLoopProgram == kind = "tl" /\ forms \in CountPrograms \cup {S_loop1, S_loop2}

IsTopLabel(name) == Len(name) > Len(P_TOP) /\ SubSeq(name, 1, Len(P_TOP)) = P_TOP

\* the 0-based indices of LABEL TOP_n, of the JMP TOP_n that closes the
\* body, and of the instruction after the loop's code
TopAt == CHOOSE i \in IndicesOf(prog, "LABEL") : IsTopLabel(prog[i + 1][2])
JmpAt == CHOOSE j \in IndicesOf(prog, "JMP") : prog[j + 1][2] = prog[TopAt + 1][2]
ExitAt == JmpAt + 3

\* the number of PRINT instructions of the loop's body
PrintsInBody ==
    Cardinality({i \in (TopAt + 1)..(JmpAt - 1) : prog[i + 1][1] = "PRINT"})

\* the operand-stack depth when the loop is entered: one value for each
\* print form that precedes it
EntryDepth ==
    Cardinality({i \in 1..Len(forms) :
        /\ IsSymNamed(forms[i].l[1], N_print)
        /\ \E w \in (i + 1)..Len(forms) : IsSymNamed(forms[w].l[1], N_while)})

\* C26 as stated: in a loop whose body contains a print the depth at LABEL
\* TOP_n grows by one with every iteration, and the depth when the loop
\* exits is the depth at entry plus the number of iterations plus one.
C26_OnePerIteration ==
    (IsLoopProgram /\ pc = "run") =>
        /\ ip = TopAt => Len(stack) = EntryDepth + GlobalY
        /\ ip = ExitAt => Len(stack) = EntryDepth + GlobalY + 1

\* every PRINT, and every LABEL END_n that closes a while loop, is followed
\* by PUSH 0
C26_Static ==
    /\ \A i \in LinesOf("PRINT") : bytecode_text[i + 1] = <<"PUSH", <<"0">>>>
    /\ \A j \in LinesOf("JMP") :
           IsTopLabel(bytecode_text[j][2]) =>
               /\ bytecode_text[j + 1][1] = "LABEL"
               /\ bytecode_text[j + 2] = <<"PUSH", <<"0">>>>

\* C26: the code for (print e) ends with PRINT, PUSH 0 and the code for
\* (while ..) with LABEL END_n, PUSH 0, and these values stay on the operand
\* stack: in a loop that is entered with y = 0 and adds 1 to y in each
\* iteration the depth at LABEL TOP_n is the depth at entry plus one for
\* each print of the body and each iteration made, and the depth when the
\* loop exits is that of the last arrival at LABEL TOP_n plus one.
C26_ValuesNotPopped ==
    /\ Compiled => C26_Static
    /\ (IsLoopProgram /\ pc = "run") =>
           /\ PrintsInBody >= 1
           /\ ip = TopAt => Len(stack) = EntryDepth + PrintsInBody * GlobalY
           /\ ip = ExitAt => Len(stack) = EntryDepth + PrintsInBody * GlobalY + 1
    /\ (IsLoopProgram /\ pc \in {"returned", "exit"}) =>
           Len(stack) = EntryDepth + PrintsInBody * GlobalY + 2

\* a loop with two prints in its body, entered at depth 1, is left after
\* two iterations at depth 1 + 2 * 2 + 1
C26_Witness ==
    /\ IsLoopProgram /\ pc = "run" /\ ip = ExitAt
    /\ EntryDepth = 1 /\ PrintsInBody = 2 /\ GlobalY = 2
    /\ Len(stack) = 6

=============================================================================
